---- MODULE Spec2Model ----
(***************************************************************************)
(* State-machine model of the terminal portfolio: the command dispatcher   *)
(* (client/src/lib/commands.ts), the formatting helpers and the Terminal   *)
(* component (client/src/components/Terminal.tsx).                         *)
(*                                                                         *)
(* A JavaScript string is a sequence of UTF-16 code units; a code unit is  *)
(* a one-character TLA+ string, except "HS" and "LS", the high and low     *)
(* surrogate of an emoji.  Long literals of the source are abbreviated to  *)
(* a few code units (the abbreviation is given next to each definition);   *)
(* the structure of every output (segments, colours, line breaks) is kept. *)
(***************************************************************************)
EXTENDS Integers, Sequences, FiniteSets, TLC

(***************************************************************************)
(* Bounds of the model.                                                    *)
(***************************************************************************)
\* highest value of a random draw (Math.random() scaled to an integer) in sudo
MaxDraw == 1
\* number of submissions the session accepts in one run
MaxSubmits == 2
\* longest pause, in milliseconds, between two key events
MaxThink == 1

(***************************************************************************)
(* Strings.                                                                *)
(***************************************************************************)
LowerCaseOf ==
  [c \in {"A","B","C","D","E","F","G","H","I","J","K","L","M","N","O","P","Q",
          "R","S","T","U","V","W","X","Y","Z"} |->
     CASE c = "A" -> "a" [] c = "B" -> "b" [] c = "C" -> "c" [] c = "D" -> "d"
       [] c = "E" -> "e" [] c = "F" -> "f" [] c = "G" -> "g" [] c = "H" -> "h"
       [] c = "I" -> "i" [] c = "J" -> "j" [] c = "K" -> "k" [] c = "L" -> "l"
       [] c = "M" -> "m" [] c = "N" -> "n" [] c = "O" -> "o" [] c = "P" -> "p"
       [] c = "Q" -> "q" [] c = "R" -> "r" [] c = "S" -> "s" [] c = "T" -> "t"
       [] c = "U" -> "u" [] c = "V" -> "v" [] c = "W" -> "w" [] c = "X" -> "x"
       [] c = "Y" -> "y" [] c = "Z" -> "z"]

\* String.prototype.toLowerCase
toLowerCase(s) ==
  [i \in 1..Len(s) |-> IF s[i] \in DOMAIN LowerCaseOf THEN LowerCaseOf[s[i]] ELSE s[i]]

UpperCaseOf ==
  [c \in {"a","b","c","d","e","f","g","h","i","j","k","l","m","n","o","p","q",
          "r","s","t","u","v","w","x","y","z"} |->
     CHOOSE u \in DOMAIN LowerCaseOf : LowerCaseOf[u] = c]

\* String.prototype.toUpperCase
toUpperCase(s) ==
  [i \in 1..Len(s) |-> IF s[i] \in DOMAIN UpperCaseOf THEN UpperCaseOf[s[i]] ELSE s[i]]

\* the white space String.prototype.trim removes
WhiteSpace == {" ", "\t", "\n"}

RECURSIVE trimStart(_)
trimStart(s) ==
  IF s # <<>> /\ Head(s) \in WhiteSpace THEN trimStart(Tail(s)) ELSE s

RECURSIVE trimEnd(_)
trimEnd(s) ==
  IF s # <<>> /\ s[Len(s)] \in WhiteSpace THEN trimEnd(SubSeq(s, 1, Len(s) - 1)) ELSE s

\* String.prototype.trim
trim(s) == trimEnd(trimStart(s))

\* String.prototype.split(' '): every single space is a separator, so two
\* adjacent spaces delimit an empty token and a tab separates nothing
RECURSIVE split(_)
split(s) ==
  IF \E i \in 1..Len(s) : s[i] = " "
  THEN LET i == CHOOSE k \in 1..Len(s) : s[k] = " " /\ \A j \in 1..(k - 1) : s[j] # " "
       IN  <<SubSeq(s, 1, i - 1)>> \o split(SubSeq(s, i + 1, Len(s)))
  ELSE <<s>>

\* Array.prototype.join(' ')
RECURSIVE join(_)
join(a) ==
  IF a = <<>> THEN <<>>
  ELSE IF Len(a) = 1 THEN a[1]
  ELSE a[1] \o <<" ">> \o join(Tail(a))

\* String.prototype.includes
includes(s, w) ==
  \E i \in 1..(Len(s) - Len(w) + 1) : SubSeq(s, i, i + Len(w) - 1) = w

\* String.prototype.padEnd
padEnd(s, n) ==
  s \o [i \in 1..(IF n > Len(s) THEN n - Len(s) ELSE 0) |-> " "]

\* Array.prototype.flat over a sequence of sequences
RECURSIVE flat(_)
flat(a) == IF a = <<>> THEN <<>> ELSE Head(a) \o flat(Tail(a))

(***************************************************************************)
(* Text segments and the formatting helpers.                               *)
(***************************************************************************)
TerminalColor == {"primary", "secondary", "accent", "warning", "error", "muted", "default"}

\* a segment without url has url = <<>>; a segment without bold has bold = FALSE
NoUrl == <<>>

TextSegment(str, color, bold, url) ==
  [text |-> str, color |-> color, bold |-> bold, url |-> url]

text_primary(str, bold)   == TextSegment(str, "primary", bold, NoUrl)
text_secondary(str, bold) == TextSegment(str, "secondary", bold, NoUrl)
text_accent(str, bold)    == TextSegment(str, "accent", bold, NoUrl)
text_warning(str, bold)   == TextSegment(str, "warning", bold, NoUrl)
text_error(str, bold)     == TextSegment(str, "error", bold, NoUrl)
text_muted(str, bold)     == TextSegment(str, "muted", bold, NoUrl)
text_default(str, bold)   == TextSegment(str, "default", bold, NoUrl)

formatToString(output) == flat([i \in 1..Len(output) |-> output[i].text])

createHeader(title) ==
  << text_primary(toUpperCase(title), TRUE), text_default(<<"\n", "\n">>, FALSE) >>

createLink(label, url) ==
  << text_primary(padEnd(label, 14), FALSE),
     TextSegment(url, "secondary", FALSE, url),
     text_default(<<"\n">>, FALSE) >>

\* `[${number}] `
NumberTag(number) ==
  <<"[">> \o <<CASE number = 1 -> "1" [] number = 2 -> "2" [] number = 3 -> "3"
                 [] OTHER -> "9">> \o <<"]", " ">>

\* createListItem showing a label in place of the address of the link
m_createListItem(number, title, description, link) ==
  << text_default(<<"\n">>, FALSE),
     text_primary(NumberTag(number), TRUE),
     text_primary(title, TRUE),
     text_default(<<"\n">>, FALSE) >>
  \o (IF description # <<>>
      THEN << text_muted(<<" ", " ", " ", " ">> \o description, FALSE), text_default(<<"\n">>, FALSE) >>
      ELSE <<>>)
  \o (IF link # <<>>
      THEN << text_muted(<<" ", " ", " ", " ", "HS", "LS", " ">>, FALSE),
              TextSegment(<<"L", "i", "n", "k">>, "secondary", FALSE, link),
              text_default(<<"\n">>, FALSE) >>
      ELSE <<>>)

createListItem(number, title, description, link) ==
  << text_default(<<"\n">>, FALSE),
     text_primary(NumberTag(number), TRUE),
     text_primary(title, TRUE),
     text_default(<<"\n">>, FALSE) >>
  \o (IF description # <<>>
      THEN << text_muted(<<" ", " ", " ", " ">> \o description, FALSE), text_default(<<"\n">>, FALSE) >>
      ELSE <<>>)
  \o (IF link # <<>>
      THEN << text_muted(<<" ", " ", " ", " ", "HS", "LS", " ">>, FALSE),
              TextSegment(link, "secondary", FALSE, link),
              text_default(<<"\n">>, FALSE) >>
      ELSE <<>>)

createBullet(label, value) ==
  << text_primary(<<" ", " ", ">", " ">> \o label \o <<":", " ">>, TRUE),
     text_default(value, FALSE),
     text_default(<<"\n">>, FALSE) >>

combine(outputs) == flat(outputs)

(***************************************************************************)
(* Values a command result can hold.  result.content is a string, a        *)
(* FormattedOutput (array of segments) or, for a value that is no          *)
(* CommandOutput at all, undefined.                                        *)
(***************************************************************************)
StringContent(s) == [kind |-> "string", str |-> s, segs |-> <<>>]
ArrayContent(a)  == [kind |-> "array", str |-> <<>>, segs |-> a]
Undefined        == [kind |-> "undefined", str |-> <<>>, segs |-> <<>>]

CLEAR  == StringContent(<<"C", "L", "E", "A", "R">>)
RELOAD == StringContent(<<"R", "E", "L", "O", "A", "D">>)

\* { content, error }
CommandOutput(content, error) ==
  [shape |-> "CommandOutput", content |-> content, error |-> error, elements |-> <<>>]

\* a plain array returned where a CommandOutput is expected: its .content and
\* .error read as undefined (error FALSE stands for the falsy undefined)
ArrayValue(elements) ==
  [shape |-> "array", content |-> Undefined, error |-> FALSE, elements |-> elements]

(***************************************************************************)
(* PORTFOLIO_DATA, abbreviated: every field keeps its place and its line   *)
(* breaks, its text is cut to a few code units.                            *)
(***************************************************************************)
PORTFOLIO_DATA ==
  [ name  |-> <<"V", "M", "R">>,
    email |-> <<"v", "@", "d">>,
    about |-> [ description |-> <<"p", "h", "d", " ", "\n", " ", " ", "c", "s">>, skills |-> <<"P", "y">>, location |-> <<"B", "R">> ],
    social |-> [ github |-> <<"h", ":", "g">>, linkedin |-> <<"h", ":", "l">>, twitter |-> <<"h", ":", "t">>,
                 portfolio |-> <<"h", ":", "p">>, linktree |-> <<"h", ":", "k">> ],
    projects |-> << [ name |-> <<"a", "s", "t", "a", "r">>, description |-> <<"d", "1">>, link |-> <<"h", ":", "g", "/", "a">> ],
                    [ name |-> <<"p", "a", "-", "r", "v">>, description |-> <<"d", "2">>, link |-> <<"h", ":", "g", "/", "p">> ],
                    [ name |-> <<"m", "s", "a">>,   description |-> <<"d", "3">>, link |-> <<"h", ":", "g", "/", "m">> ] >>,
    stack |-> << [ category |-> <<"F", "e">>, tech |-> <<"R">> ],
                 [ category |-> <<"B", "e">>, tech |-> <<"N">> ],
                 [ category |-> <<"F", "w">>, tech |-> <<"L">> ],
                 [ category |-> <<"D", "b">>, tech |-> <<"P">> ],
                 [ category |-> <<"D", "o">>, tech |-> <<"D">> ],
                 [ category |-> <<"T", "o">>, tech |-> <<"G", ",", " ">> ] >>,
    resume |-> <<"h", ":", "c", "v">> ]

(***************************************************************************)
(* The names of the command table.                                         *)
(***************************************************************************)
n_help     == <<"h", "e", "l", "p">>
n_about    == <<"a", "b", "o", "u", "t">>
n_email    == <<"e", "m", "a", "i", "l">>
n_social   == <<"s", "o", "c", "i", "a", "l">>
n_projects == <<"p", "r", "o", "j", "e", "c", "t", "s">>
n_stack    == <<"s", "t", "a", "c", "k">>
n_blog     == <<"b", "l", "o", "g">>
n_videos   == <<"v", "i", "d", "e", "o", "s">>
n_podcasts == <<"p", "o", "d", "c", "a", "s", "t", "s">>
n_resume   == <<"r", "e", "s", "u", "m", "e">>
n_history  == <<"h", "i", "s", "t", "o", "r", "y">>
n_sudo     == <<"s", "u", "d", "o">>
n_clear    == <<"c", "l", "e", "a", "r">>
n_reload   == <<"r", "e", "l", "o", "a", "d">>

\* the own keys of the object literal `commands`
CommandNames ==
  { n_help, n_about, n_email, n_social, n_projects, n_stack, n_blog, n_videos,
    n_podcasts, n_resume, n_history, n_sudo, n_clear, n_reload }

\* `commands` is an object literal, so it inherits the properties of
\* Object.prototype.  A token has been through toLowerCase, so of those only
\* the all-lower-case names can be looked up: constructor and __proto__.
n_constructor == <<"c", "o", "n", "s", "t", "r", "u", "c", "t", "o", "r">>
n___proto__   == <<"_", "_", "p", "r", "o", "t", "o", "_", "_">>
InheritedNames == { n_constructor, n___proto__ }

(***************************************************************************)
(* The handlers.                                                           *)
(***************************************************************************)
RECURSIVE Decimal(_)
Decimal(n) ==
  LET d == <<"0", "1", "2", "3", "4", "5", "6", "7", "8", "9">>
  IN  IF n < 10 THEN <<d[n + 1]>> ELSE Decimal(n \div 10) \o <<d[(n % 10) + 1]>>

\* Math.floor(Math.random() * n) for the draw d
RandomBelow(d, n) == d % n

commands_help ==
  CommandOutput(ArrayContent(combine(<<
    createHeader(<<"A", "V", "A", "I", "L", "A", "B", "L", "E", " ", "C", "O", "M", "M", "A", "N", "D", "S">>),
    << text_primary(<<"a", "b", "o", "u", "t", " ">>, TRUE),    text_default(<<"-", " ", "a", "\n">>, FALSE),
       text_primary(<<"b", "l", "o", "g", " ">>, TRUE),     text_default(<<"-", " ", "b", "\n">>, FALSE),
       text_primary(<<"s", "o", "c", "i", "a", "l", " ">>, TRUE),   text_default(<<"-", " ", "s", "\n">>, FALSE),
       text_primary(<<"p", "r", "o", "j", "e", "c", "t", "s", " ">>, TRUE), text_default(<<"-", " ", "p", "\n">>, FALSE),
       text_primary(<<"s", "t", "a", "c", "k", " ">>, TRUE),    text_default(<<"-", " ", "t", "\n">>, FALSE),
       text_primary(<<"v", "i", "d", "e", "o", "s", " ">>, TRUE),   text_default(<<"-", " ", "v", "\n">>, FALSE),
       text_primary(<<"p", "o", "d", "c", "a", "s", "t", "s", " ">>, TRUE), text_default(<<"-", " ", "c", "\n">>, FALSE),
       text_primary(<<"r", "e", "s", "u", "m", "e", " ">>, TRUE),   text_default(<<"-", " ", "r", "\n">>, FALSE),
       text_primary(<<"h", "i", "s", "t", "o", "r", "y", " ">>, TRUE),  text_default(<<"-", " ", "h", "\n">>, FALSE),
       text_primary(<<"e", "m", "a", "i", "l", " ">>, TRUE),    text_default(<<"-", " ", "e", "\n">>, FALSE),
       text_primary(<<"s", "u", "d", "o", " ">>, TRUE),     text_default(<<"-", " ", "u", "\n">>, FALSE),
       text_primary(<<"c", "l", "e", "a", "r", " ">>, TRUE),    text_default(<<"-", " ", "x", "\n">>, FALSE),
       text_primary(<<"r", "e", "l", "o", "a", "d", " ">>, TRUE),   text_default(<<"-", " ", "l", "\n">>, FALSE),
       text_primary(<<"h", "e", "l", "p", " ">>, TRUE),     text_default(<<"-", " ", "?", "\n">>, FALSE),
       text_default(<<"\n">>, FALSE),
       text_muted(<<"T", "y", "p", "e", " ", "a", "n", "y", "\n">>, FALSE) >> >>)), FALSE)

commands_about ==
  CommandOutput(ArrayContent(combine(<<
    createHeader(<<"A", "B", "O", "U", "T", " ", "M", "E">>),
    << text_default(PORTFOLIO_DATA.about.description \o <<"\n", "\n">>, FALSE),
       text_primary(<<"S", "k", "i", "l", "l", "s", ":", " ">>, TRUE),
       text_accent(PORTFOLIO_DATA.about.skills \o <<"\n">>, FALSE),
       text_primary(<<"L", "o", "c", "a", "t", "i", "o", "n", ":", " ">>, TRUE),
       text_default(PORTFOLIO_DATA.about.location \o <<"\n">>, FALSE) >> >>)), FALSE)

\* the label is the envelope emoji (a surrogate pair) followed by ' Email: ',
\* abbreviated to the pair and ': '
commands_email ==
  CommandOutput(ArrayContent(
    << text_primary(<<"HS", "LS", ":", " ">>, TRUE),
       text_secondary(PORTFOLIO_DATA.email, FALSE),
       text_default(<<"\n">>, FALSE) >>), FALSE)

commands_social ==
  CommandOutput(ArrayContent(combine(<<
    createHeader(<<"S", "O", "C", "I", "A", "L", " ", "N", "E", "T", "W", "O", "R", "K", "S">>),
    createLink(<<"G", "i", "t", "H", "u", "b", ":">>, PORTFOLIO_DATA.social.github),
    createLink(<<"L", "i", "n", "k", "e", "d", "I", "n", ":">>, PORTFOLIO_DATA.social.linkedin),
    createLink(<<"T", "w", "i", "t", "t", "e", "r", ":">>, PORTFOLIO_DATA.social.twitter),
    createLink(<<"P", "o", "r", "t", "f", "o", "l", "i", "o", ":">>, PORTFOLIO_DATA.social.portfolio),
    createLink(<<"L", "i", "n", "k", "t", "r", "e", "e", ":">>, PORTFOLIO_DATA.social.linktree) >>)), FALSE)

commands_projects ==
  LET item(project, idx) ==
        createListItem(idx + 1, project.name, project.description, project.link)
      projectItems == flat([i \in 1..Len(PORTFOLIO_DATA.projects) |->
                              item(PORTFOLIO_DATA.projects[i], i - 1)])
  IN  CommandOutput(ArrayContent(combine(<<
        createHeader(<<"M", "Y", " ", "P", "R", "O", "J", "E", "C", "T", "S">>), projectItems >>)), FALSE)

commands_stack ==
  LET bullet(item) == createBullet(item.category, item.tech)
      stackItems == flat([i \in 1..Len(PORTFOLIO_DATA.stack) |->
                            bullet(PORTFOLIO_DATA.stack[i])])
  IN  CommandOutput(ArrayContent(combine(<<
        createHeader(<<"T", "E", "C", "H", " ", "S", "T", "A", "C", "K">>), stackItems >>)), FALSE)

commands_blog ==
  CommandOutput(ArrayContent(combine(<<
    createHeader(<<"M", "Y", " ", "B", "L", "O", "G">>),
    << text_default(<<"C", "h", "e", "c", "k", "\n">>, FALSE), text_default(<<"d", "e", "v", ".", "\n", "\n">>, FALSE) >>,
    createLink(<<"B", "l", "o", "g", ":">>, <<"h", ":", "b">>) >>)), FALSE)

commands_videos ==
  CommandOutput(ArrayContent(combine(<<
    createHeader(<<"Y", "O", "U", "T", "U", "B", "E", " ", "V", "I", "D", "E", "O", "S">>),
    << text_default(<<"S", "u", "b", "s", "c", "r", "i", "b", "e", "\n">>, FALSE), text_default(<<"t", "e", "c", "h", ".", "\n", "\n">>, FALSE) >>,
    createLink(<<"Y", "o", "u", "T", "u", "b", "e", ":">>, <<"h", ":", "y">>) >>)), FALSE)

commands_podcasts ==
  CommandOutput(ArrayContent(combine(<<
    createHeader(<<"S", "P", "O", "T", "I", "F", "Y", " ", "P", "O", "D", "C", "A", "S", "T", "S">>),
    << text_default(<<"C", "o", "m", "i", "n", "g", " ", "s", "o", "o", "n", "!", "\n", "\n">>, FALSE) >>,
    createLink(<<"S", "p", "o", "t", "i", "f", "y", ":">>, <<"h", ":", "s">>) >>)), FALSE)

commands_resume ==
  CommandOutput(ArrayContent(combine(<<
    createHeader(<<"R", "E", "S", "U", "M", "E">>),
    createLink(<<"D", "o", "w", "n", "l", "o", "a", "d", ":">>, PORTFOLIO_DATA.resume),
    createLink(<<"V", "i", "e", "w", " ", "o", "n", "l", "i", "n", "e", ":">>, <<"h", ":", "c", "v", "/">>) >>)), FALSE)

commands_history ==
  CommandOutput(ArrayContent(combine(<<
    createHeader(<<"C", "O", "M", "M", "A", "N", "D", " ", "H", "I", "S", "T", "O", "R", "Y">>),
    << text_default(<<"U", "s", "e", " ", "a", "r", "r", "o", "w", " ", "k", "e", "y", "s", " ">>, FALSE),
       text_primary(<<"(", "^", " ", "v", ")">>, TRUE),
       text_default(<<" ", "t", "o", " ", "n", "a", "v", "i", "g", "a", "t", "e", ".", "\n">>, FALSE) >> >>)), FALSE)

\* the package list of sudo, cut to its first three entries
packages == << <<"r", "e", "a", "c", "t">>, <<"t", "y", "p", "e", "s", "c", "r", "i", "p", "t">>, <<"v", "i", "t", "e">> >>

\* one random draw d stands for every Math.random() of one call
generateUpdateLines(d) ==
  LET numPackages == RandomBelow(d, 8) + 5
      pkg         == packages[RandomBelow(d, Len(packages)) + 1]
      oldVersion  == Decimal(RandomBelow(d, 5) + 1) \o <<".">> \o Decimal(RandomBelow(d, 20))
                       \o <<".">> \o Decimal(RandomBelow(d, 10))
      newVersion  == Decimal(RandomBelow(d, 5) + 1) \o <<".">> \o Decimal(RandomBelow(d, 20))
                       \o <<".">> \o Decimal(RandomBelow(d, 10))
      size        == RandomBelow(d, 500) + 50
      line(i)     == << text_default(<<"G", "e", "t", ":">> \o Decimal(i + 1) \o <<" ">>, FALSE),
                        text_accent(<<"s", "t", "a", "b", "l", "e", "/", "m", "a", "i", "n", " ">>, TRUE),
                        text_default(pkg \o <<" ">>, FALSE),
                        text_muted(oldVersion \o <<" ", "-", ">", " ">>, FALSE),
                        text_primary(newVersion, TRUE),
                        text_default(<<" ", "[">> \o Decimal(size) \o <<" ", "k", "B", "]", "\n">>, FALSE) >>
      totalSize   == RandomBelow(d, 5000) + 1000
      speed       == RandomBelow(d, 3000) + 500
      time        == totalSize \div speed
  IN  flat([i \in 1..numPackages |-> line(i - 1)])
      \o << text_default(<<"\n", "F", "e", "t", "c", "h", "e", "d", " ">>, FALSE),
            text_primary(Decimal(totalSize) \o <<" ", "k", "B">>, TRUE),
            text_default(<<" ", "i", "n", " ">>, FALSE),
            text_accent(Decimal(time) \o <<"s">>, TRUE),
            text_default(<<" ", "(">>, FALSE),
            text_secondary(Decimal(speed) \o <<" ", "k", "B", "/", "s">>, FALSE),
            text_default(<<")", "\n", "\n">>, FALSE) >>
      \o << text_default(<<"R", "e", "a", "d", "i", "n", "g", " ", "p", "a", "c", "k", "a", "g", "e", " ", "l", "i", "s", "t", "s", ".", ".", ".", " ">>, FALSE), text_accent(<<"D", "o", "n", "e", "\n">>, TRUE) >>
      \o << text_default(<<"B", "u", "i", "l", "d", "i", "n", "g", " ", "d", "e", "p", "e", "n", "d", "e", "n", "c", "y", " ", "t", "r", "e", "e", ".", ".", ".", " ">>, FALSE), text_accent(<<"D", "o", "n", "e", "\n">>, TRUE) >>
      \o << text_default(<<"R", "e", "a", "d", "i", "n", "g", " ", "s", "t", "a", "t", "e", " ", "i", "n", "f", "o", "r", "m", "a", "t", "i", "o", "n", ".", ".", ".", " ">>, FALSE), text_accent(<<"D", "o", "n", "e", "\n">>, TRUE) >>
      \o << text_accent(<<"\n", "A", "l", "l", " ", "p", "a", "c", "k", "a", "g", "e", "s", " ", "a", "r", "e", " ", "u", "p", " ", "t", "o", " ", "d", "a", "t", "e", "!", "\n">>, TRUE) >>

\* commands_sudo with the result of an unknown sub-command flagged as an error
m_commands_sudo(args, d) ==
  LET fullCommand == toLowerCase(join(args))
      isUpdateCommand ==
        \/ includes(fullCommand, <<"u", "p", "d", "a", "t", "e">>)
        \/ includes(fullCommand, <<"u", "p", "g", "r", "a", "d", "e">>)
        \/ includes(fullCommand, <<"i", "n", "s", "t", "a", "l", "l">>)
        \/ Len(args) = 0
  IN  IF isUpdateCommand
      THEN CommandOutput(ArrayContent(generateUpdateLines(d)), FALSE)
      ELSE CommandOutput(ArrayContent(
             << text_error(<<"s", "u", "d", "o", ":", " ">> \o args[1] \o <<":", " ", "c", "o", "m", "m", "a", "n", "d", " ", "n", "o", "t", " ", "f", "o", "u", "n", "d", "\n">>, FALSE) >>), TRUE)

\* commands_sudo printing the update transcript whatever its arguments are
m_commands_sudo_anyArgs(args, d) ==
  CommandOutput(ArrayContent(combine(<<
    << text_primary(<<"[", "s", "u", "d", "o", "]", " ">>, TRUE), text_default(<<"p", "a", "s", "s", "w", "o", "r", "d", " ", "f", "o", "r", " ", "u", "s", "e", "r", ":", " ">>, FALSE) >>,
    << text_muted(<<"*", "*", "*", "*", "*", "*", "*", "*", "*", "*", "*", "*", "*", "*", "*", "\n", "\n">>, FALSE) >>,
    generateUpdateLines(d) >>)), FALSE)

commands_sudo(args, d) ==
  LET fullCommand == toLowerCase(join(args))
      isUpdateCommand ==
        \/ includes(fullCommand, <<"u", "p", "d", "a", "t", "e">>)
        \/ includes(fullCommand, <<"u", "p", "g", "r", "a", "d", "e">>)
        \/ includes(fullCommand, <<"i", "n", "s", "t", "a", "l", "l">>)
        \/ Len(args) = 0
  IN  IF isUpdateCommand
      THEN CommandOutput(ArrayContent(combine(<<
             << text_primary(<<"[", "s", "u", "d", "o", "]", " ">>, TRUE), text_default(<<"p", "a", "s", "s", "w", "o", "r", "d", " ", "f", "o", "r", " ", "u", "s", "e", "r", ":", " ">>, FALSE) >>,
             << text_muted(<<"*", "*", "*", "*", "*", "*", "*", "*", "*", "*", "*", "*", "*", "*", "*", "\n", "\n">>, FALSE) >>,
             << text_accent(<<"R", "e", "a", "d", "i", "n", "g", " ", "p", "a", "c", "k", "a", "g", "e", " ", "l", "i", "s", "t", "s", ".", ".", ".", " ", "D", "o", "n", "e", "\n">>, TRUE) >>,
             << text_default(<<"B", "u", "i", "l", "d", "i", "n", "g", " ", "d", "e", "p", "e", "n", "d", "e", "n", "c", "y", " ", "t", "r", "e", "e", "\n">>, FALSE) >>,
             << text_default(<<"R", "e", "a", "d", "i", "n", "g", " ", "s", "t", "a", "t", "e", " ", "i", "n", "f", "o", "r", "m", "a", "t", "i", "o", "n", ".", ".", ".", " ", "D", "o", "n", "e", "\n", "\n">>, FALSE) >>,
             generateUpdateLines(d) >>)), FALSE)
      ELSE CommandOutput(ArrayContent(
             << text_primary(<<"[", "s", "u", "d", "o", "]", " ">>, TRUE),
                text_default(<<"p", "a", "s", "s", "w", "o", "r", "d", " ", "f", "o", "r", " ", "u", "s", "e", "r", ":", " ">>, FALSE),
                text_muted(<<"*", "*", "*", "*", "*", "*", "*", "*", "*", "*", "*", "*", "*", "*", "*", "\n", "\n">>, FALSE),
                text_error(<<"s", "u", "d", "o", ":", " ">> \o args[1] \o <<":", " ", "c", "o", "m", "m", "a", "n", "d", " ", "n", "o", "t", " ", "f", "o", "u", "n", "d", "\n">>, FALSE) >>), FALSE)

commands_clear == CommandOutput(CLEAR, FALSE)

commands_reload == CommandOutput(RELOAD, FALSE)

\* the message of the TypeError 'commands[command] is not a function', abbreviated
NotAFunction == <<"n", "o", "t", " ", "a", " ", "f", "u", "n", "c", "t", "i", "o", "n">>

\* commands[command](args): what the call returns, or the failure it raises.
\* commands.constructor is Object, and Object(args) is args itself;
\* commands.__proto__ is Object.prototype, which cannot be called.
commands(command, args, d) ==
  LET returns(v) == [threw |-> FALSE, value |-> v, message |-> <<>>]
  IN  CASE command = n_help     -> returns(commands_help)
        [] command = n_about    -> returns(commands_about)
        [] command = n_email    -> returns(commands_email)
        [] command = n_social   -> returns(commands_social)
        [] command = n_projects -> returns(commands_projects)
        [] command = n_stack    -> returns(commands_stack)
        [] command = n_blog     -> returns(commands_blog)
        [] command = n_videos   -> returns(commands_videos)
        [] command = n_podcasts -> returns(commands_podcasts)
        [] command = n_resume   -> returns(commands_resume)
        [] command = n_history  -> returns(commands_history)
        [] command = n_sudo     -> returns(commands_sudo(args, d))
        [] command = n_clear    -> returns(commands_clear)
        [] command = n_reload   -> returns(commands_reload)
        [] command = n_constructor -> returns(ArrayValue(args))
        [] OTHER -> [threw |-> TRUE, value |-> ArrayValue(<<>>), message |-> NotAFunction]

(***************************************************************************)
(* getCommandOutput.                                                       *)
(***************************************************************************)
\* `command in commands`
InCommands(command) == command \in CommandNames \cup InheritedNames

\* const [command, ...args] = input.trim().toLowerCase().split(' ')
ParsedCommand(input) == Head(split(toLowerCase(trim(input))))
ParsedArgs(input)    == Tail(split(toLowerCase(trim(input))))

\* a failure that leaves a function as a rejected promise
Thrown(message) ==
  [shape |-> "thrown", content |-> StringContent(message), error |-> FALSE, elements |-> <<>>]

\* the result of the catch branch ('Error executing command: ' abbreviated)
HandlerFailure(message) ==
  CommandOutput(ArrayContent(
    << text_error(<<"E", "r", "r", "o", "r", ":", " ">>, FALSE),
       text_error(message, FALSE),
       text_default(<<"\n">>, FALSE) >>), TRUE)

\* the result for a token that is not in the table ('Command not found: ' and
\* ' for available commands.\n' abbreviated)
CommandNotFound(command) ==
  CommandOutput(ArrayContent(
    << text_error(<<"N", "o", ":", " ">> \o command \o <<".", " ">>, FALSE),
       text_default(<<"T", "y", "p", "e", " ">>, FALSE),
       text_primary(<<"h", "e", "l", "p">>, TRUE),
       text_default(<<".", "\n">>, FALSE) >>), TRUE)

\* getCommandOutput without the try/catch around the handler call
m_getCommandOutput_nocatch(input, d) ==
  LET command == ParsedCommand(input)
      args    == ParsedArgs(input)
      done(r, inv) == [result |-> r, command |-> command, args |-> args, invoked |-> inv]
  IN  IF command = n_clear THEN done(CommandOutput(CLEAR, FALSE), FALSE)
      ELSE IF command = n_reload THEN done(CommandOutput(RELOAD, FALSE), FALSE)
      ELSE IF InCommands(command)
           THEN LET call == commands(command, args, d)
                IN  IF call.threw THEN done(Thrown(call.message), TRUE)
                    ELSE done(call.value, TRUE)
           ELSE done(CommandNotFound(command), FALSE)

\* getCommandOutput with the table looked up before the two special commands
m_getCommandOutput_lookupFirst(input, d) ==
  LET command == ParsedCommand(input)
      args    == ParsedArgs(input)
      done(r, inv) == [result |-> r, command |-> command, args |-> args, invoked |-> inv]
  IN  IF InCommands(command)
      THEN LET call == commands(command, args, d)
           IN  IF call.threw THEN done(HandlerFailure(call.message), TRUE)
               ELSE done(call.value, TRUE)
      ELSE IF command = n_clear THEN done(CommandOutput(CLEAR, FALSE), FALSE)
      ELSE IF command = n_reload THEN done(CommandOutput(RELOAD, FALSE), FALSE)
      ELSE done(CommandNotFound(command), FALSE)

\* One call of getCommandOutput: `result` is what the promise settles to,
\* `command` and `args` are the locals of the call, `invoked` tells whether
\* commands[command](args) was evaluated.
getCommandOutput(input, d) ==
  LET command == ParsedCommand(input)
      args    == ParsedArgs(input)
      done(r, inv) == [result |-> r, command |-> command, args |-> args, invoked |-> inv]
  IN  IF command = n_clear THEN done(CommandOutput(CLEAR, FALSE), FALSE)
      ELSE IF command = n_reload THEN done(CommandOutput(RELOAD, FALSE), FALSE)
      ELSE IF InCommands(command)
           THEN LET call == commands(command, args, d)
                IN  IF call.threw THEN done(HandlerFailure(call.message), TRUE)
                    ELSE done(call.value, TRUE)
           ELSE done(CommandNotFound(command), FALSE)

(***************************************************************************)
(* State.                                                                  *)
(***************************************************************************)
VARIABLES
  lines,         \* useState: the transcript
  input,         \* useState: the text of the input element
  history,       \* useState: the submitted commands
  historyIndex,  \* useState: the history cursor
  isProcessing,  \* useState: a command is in flight
  tasks,         \* the calls of handleCommand that are suspended at an await
  now,           \* Date.now()
  crashed,       \* rendering threw: the component tree is gone
  submits,       \* number of submissions accepted so far
  lastEvent,     \* the handler that ran last, and how it ended
  reloads,       \* number of calls of window.location.reload()
  created,       \* the ids given to lines since the page was loaded, in order
  raw,           \* the argument of a direct call of getCommandOutput
  out,           \* what that call produced
  again          \* what a second call with the same argument produced

vars == << lines, input, history, historyIndex, isProcessing, tasks, now, crashed,
           submits, lastEvent, reloads, created, raw, out, again >>

sessionVars == << lines, input, history, historyIndex, isProcessing, tasks, now,
                  crashed, submits, lastEvent, reloads, created >>

\* Date.now() when the page is loaded
Epoch == 100

LineId(prefix, n) == [prefix |-> prefix, n |-> n]

\* the two lines the transcript starts with (texts abbreviated)
WelcomeLines ==
  << [ id |-> LineId("", 1), type |-> "welcome",
       content |-> StringContent(<<"W", "e", "l", "c", "o", "m", "e">>),
       displayedContent |-> StringContent(<<"W", "e", "l", "c", "o", "m", "e">>), isComplete |-> TRUE ],
     [ id |-> LineId("", 2), type |-> "welcome",
       content |-> StringContent(<<"T", "y", "p", "e", " ", "h", "e", "l", "p">>),
       displayedContent |-> StringContent(<<"T", "y", "p", "e", " ", "h", "e", "l", "p">>), isComplete |-> TRUE ] >>

\* no call made yet
\* the ids of the lines of a transcript
Ids(ls) == [i \in 1..Len(ls) |-> ls[i].id]

NoCall ==
  [ result |-> [shape |-> "none", content |-> Undefined, error |-> FALSE, elements |-> <<>>],
    command |-> <<>>, args |-> <<>>, invoked |-> FALSE ]

InitSession ==
  /\ lines = WelcomeLines
  /\ input = <<>>
  /\ history = <<>>
  /\ historyIndex = -1
  /\ isProcessing = FALSE
  /\ tasks = <<>>
  /\ now = Epoch
  /\ crashed = FALSE
  /\ submits = 0
  /\ lastEvent = "load"
  /\ reloads = 0
  /\ created = Ids(WelcomeLines)

(***************************************************************************)
(* getCommandOutput called on its own, on every input of ResolveInputs.    *)
(***************************************************************************)
TypedTokens ==
  CommandNames \cup InheritedNames
    \cup { <<"h", "e", "l">>, <<"z", "z">>, <<"H", "e", "l", "p">>, <<"C", "L", "E", "A", "R">>, <<"S", "u", "d", "o">>, <<"s", "u", "d">> }

TypedTails == { <<>>, <<" ", "x">>, <<" ", "U", "p", "d", "a", "t", "e">>, <<" ", "F", "o", "o">>, <<" ", " ", "x">>, <<"\t", "x">>, <<" ">> }

TypedLeads == { <<>>, <<" ">> }

ResolveInputs ==
  { lead \o token \o tail : lead \in TypedLeads, token \in TypedTokens, tail \in TypedTails }
    \cup { <<>>, <<" ", " ">> }

InitResolve ==
  /\ InitSession
  /\ raw \in ResolveInputs
  /\ out = NoCall
  /\ again = NoCall

Resolve ==
  /\ out = NoCall
  /\ \E d \in 0..MaxDraw : out' = getCommandOutput(raw, d)
  /\ UNCHANGED << raw, again, sessionVars >>

\* the same input is resolved a second time
ResolveAgain ==
  /\ out # NoCall
  /\ again = NoCall
  /\ \E d \in 0..MaxDraw : again' = getCommandOutput(raw, d)
  /\ UNCHANGED << raw, out, sessionVars >>

NextResolve == Resolve \/ ResolveAgain

SpecResolve == InitResolve /\ [][NextResolve]_vars

Resolved == out.result.shape # "none"

(***************************************************************************)
(* The Terminal component (components/Terminal.tsx).                       *)
(***************************************************************************)
TYPING_SPEED_MS == 2

\* the texts the user types or pastes into the input element
SessionInputs == { <<"e", "m", "a", "i", "l">>, <<" ", "Z", "z">>, <<"c", "l", "e", "a", "r">>, <<"r", "e", "l", "o", "a", "d", " ", "x">>, <<"c", "o", "n", "s", "t", "r", "u", "c", "t", "o", "r">>, <<" ">> }

\* Array.prototype.findIndex(l => l.id === lineId); 0 stands for -1
findIndex(ls, lineId) ==
  IF \E i \in 1..Len(ls) : ls[i].id = lineId
  THEN CHOOSE i \in 1..Len(ls) : ls[i].id = lineId /\ \A j \in 1..(i - 1) : ls[j].id # lineId
  ELSE 0

\* setDisplayedContent writing the revealed content into content as well
m_setDisplayedContent_andContent(ls, lineId, displayed) ==
  LET lineIndex == findIndex(ls, lineId)
  IN  IF lineIndex # 0
      THEN [ls EXCEPT ![lineIndex].displayedContent = displayed, ![lineIndex].content = displayed]
      ELSE ls

\* the updater that stores the revealed content of line lineId
setDisplayedContent(ls, lineId, displayed) ==
  LET lineIndex == findIndex(ls, lineId)
  IN  IF lineIndex # 0 THEN [ls EXCEPT ![lineIndex].displayedContent = displayed] ELSE ls

\* the updater that marks line lineId as complete
setComplete(ls, lineId) ==
  LET lineIndex == findIndex(ls, lineId)
  IN  IF lineIndex # 0 THEN [ls EXCEPT ![lineIndex].isComplete = TRUE] ELSE ls

\* TerminalOutput paints line.displayedContent || line.content (the empty
\* string is falsy) and throws when that is neither a string nor an array
Painted(line) ==
  IF line.displayedContent = StringContent(<<>>) \/ line.displayedContent = Undefined
  THEN line.content
  ELSE line.displayedContent

RenderThrows(ls) == \E i \in 1..Len(ls) : Painted(ls[i]).kind = "undefined"

\* SegmentLoop with a new segment replacing the revealed ones instead of
\* being pushed after them
RECURSIVE m_SegmentLoop(_, _, _, _)
m_SegmentLoop(content, displayedSegments, currentSegmentIndex, currentCharIndex) ==
  IF currentSegmentIndex < Len(content)
  THEN LET currentSegment == content[currentSegmentIndex + 1]
           segmentText    == currentSegment.text
           opened == IF currentCharIndex = 0
                     THEN << [currentSegment EXCEPT !.text = <<>>] >>
                     ELSE displayedSegments
       IN  IF currentCharIndex < Len(segmentText)
           THEN [ status |-> "await",
                  displayedSegments |->
                    [opened EXCEPT ![Len(opened)].text = @ \o <<segmentText[currentCharIndex + 1]>>],
                  currentSegmentIndex |-> currentSegmentIndex,
                  currentCharIndex |-> currentCharIndex + 1 ]
           ELSE m_SegmentLoop(content, opened, currentSegmentIndex + 1, 0)
  ELSE [ status |-> "done", displayedSegments |-> displayedSegments,
         currentSegmentIndex |-> currentSegmentIndex, currentCharIndex |-> currentCharIndex ]

\* renderOutputLine on an array, from the head of the while loop up to the
\* next await ("await": one more code unit is on display) or to the end of
\* the loop ("done").  Indices count from 0 as in the source.
RECURSIVE SegmentLoop(_, _, _, _)
SegmentLoop(content, displayedSegments, currentSegmentIndex, currentCharIndex) ==
  IF currentSegmentIndex < Len(content)
  THEN LET currentSegment == content[currentSegmentIndex + 1]
           segmentText    == currentSegment.text
           opened == IF currentCharIndex = 0
                     THEN Append(displayedSegments, [currentSegment EXCEPT !.text = <<>>])
                     ELSE displayedSegments
       IN  IF currentCharIndex < Len(segmentText)
           THEN [ status |-> "await",
                  displayedSegments |->
                    [opened EXCEPT ![Len(opened)].text = @ \o <<segmentText[currentCharIndex + 1]>>],
                  currentSegmentIndex |-> currentSegmentIndex,
                  currentCharIndex |-> currentCharIndex + 1 ]
           ELSE SegmentLoop(content, opened, currentSegmentIndex + 1, 0)
  ELSE [ status |-> "done", displayedSegments |-> displayedSegments,
         currentSegmentIndex |-> currentSegmentIndex, currentCharIndex |-> currentCharIndex ]

\* the rest of the loop body after the await, then the loop again
SegmentResume(content, displayedSegments, currentSegmentIndex, currentCharIndex) ==
  IF currentCharIndex >= Len(content[currentSegmentIndex + 1].text)
  THEN SegmentLoop(content, displayedSegments, currentSegmentIndex + 1, 0)
  ELSE SegmentLoop(content, displayedSegments, currentSegmentIndex, currentCharIndex)

\* a call of handleCommand suspended at `await getCommandOutput(command)`
DispatchTask(command) ==
  [ pc |-> "dispatch", command |-> command, lineId |-> LineId("", 0),
    content |-> Undefined, displayedSegments |-> <<>>, currentSegmentIndex |-> 0,
    currentCharIndex |-> 0, displayedContent |-> <<>>, i |-> 0,
    result |-> NoCall.result ]

RemoveAt(s, k) == SubSeq(s, 1, k - 1) \o SubSeq(s, k + 1, Len(s))

\* the guard of handleCommand without the test of isProcessing
m_Accepted(command) == trim(command) # <<>>

\* Accepted without trim
m_Accepted_noTrim(command) == command # <<>> /\ ~isProcessing

\* if (!command.trim() || isProcessing) return;
Accepted(command) == trim(command) # <<>> /\ ~isProcessing

\* The continuation of `await getCommandOutput(command)` is a chain of
\* promise jobs: it runs before the next key event or timer is handled.
NoPromiseJob == \A k \in 1..Len(tasks) : tasks[k].pc \notin {"dispatch", "settled"}

\* onChange of the input element
SetInput ==
  /\ ~crashed
  /\ NoPromiseJob
  /\ \E v \in SessionInputs \cup {<<>>} :
       /\ v # input
       /\ input' = v
  /\ lastEvent' = "change"
  /\ UNCHANGED << lines, history, historyIndex, isProcessing, tasks, now, crashed,
                  submits, reloads, created, raw, out, again >>

\* KeyEnter keeping the trimmed text in the history
m_KeyEnter_trimmed ==
  /\ ~crashed
  /\ NoPromiseJob
  /\ IF Accepted(input)
     THEN /\ submits < MaxSubmits
          /\ \E dt \in 0..MaxThink : now' = now + dt
          /\ history' = Append(history, trim(input))
          /\ historyIndex' = -1
          /\ lines' = Append(lines,
                        [ id |-> LineId("", now'), type |-> "command",
                          content |-> StringContent(input),
                          displayedContent |-> StringContent(input),
                          isComplete |-> TRUE ])
          /\ input' = <<>>
          /\ isProcessing' = TRUE
          /\ tasks' = Append(tasks, DispatchTask(input))
          /\ submits' = submits + 1
          /\ lastEvent' = "enter"
          /\ created' = Append(created, LineId("", now'))
          /\ UNCHANGED << crashed, reloads, raw, out, again >>
     ELSE /\ lastEvent' = "enter"
          /\ UNCHANGED << lines, input, history, historyIndex, isProcessing, tasks, now,
                          crashed, submits, reloads, created, raw, out, again >>

\* KeyEnter without setInput('')
m_KeyEnter_keepInput ==
  /\ ~crashed
  /\ NoPromiseJob
  /\ IF Accepted(input)
     THEN /\ submits < MaxSubmits
          /\ \E dt \in 0..MaxThink : now' = now + dt
          /\ history' = Append(history, input)
          /\ historyIndex' = -1
          /\ lines' = Append(lines,
                        [ id |-> LineId("", now'), type |-> "command",
                          content |-> StringContent(input),
                          displayedContent |-> StringContent(input),
                          isComplete |-> TRUE ])
          /\ isProcessing' = TRUE
          /\ tasks' = Append(tasks, DispatchTask(input))
          /\ submits' = submits + 1
          /\ lastEvent' = "enter"
          /\ created' = Append(created, LineId("", now'))
          /\ UNCHANGED << input, crashed, reloads, raw, out, again >>
     ELSE /\ lastEvent' = "enter"
          /\ UNCHANGED << lines, input, history, historyIndex, isProcessing, tasks, now,
                          crashed, submits, reloads, created, raw, out, again >>

\* handleKeyDown, Enter: handleCommand(input) up to its first await
KeyEnter ==
  /\ ~crashed
  /\ NoPromiseJob
  /\ IF Accepted(input)
     THEN /\ submits < MaxSubmits
          /\ \E dt \in 0..MaxThink : now' = now + dt
          /\ history' = Append(history, input)
          /\ historyIndex' = -1
          /\ lines' = Append(lines,
                        [ id |-> LineId("", now'), type |-> "command",
                          content |-> StringContent(input),
                          displayedContent |-> StringContent(input),
                          isComplete |-> TRUE ])
          /\ input' = <<>>
          /\ isProcessing' = TRUE
          /\ tasks' = Append(tasks, DispatchTask(input))
          /\ submits' = submits + 1
          /\ lastEvent' = "enter"
          /\ created' = Append(created, LineId("", now'))
          /\ UNCHANGED << crashed, reloads, raw, out, again >>
     ELSE /\ lastEvent' = "enter"
          /\ UNCHANGED << lines, input, history, historyIndex, isProcessing, tasks, now,
                          crashed, submits, reloads, created, raw, out, again >>

\* KeyArrowUp reading the history from its oldest end
m_KeyArrowUp_fromStart ==
  /\ ~crashed
  /\ NoPromiseJob
  /\ IF historyIndex < Len(history) - 1
     THEN LET newIndex == historyIndex + 1
          IN  /\ historyIndex' = newIndex
              /\ input' = history[newIndex + 1]
     ELSE UNCHANGED << historyIndex, input >>
  /\ lastEvent' = "up"
  /\ UNCHANGED << lines, history, isProcessing, tasks, now, crashed, submits, reloads, created, raw, out, again >>

\* KeyArrowUp stepping one entry past the oldest one
m_KeyArrowUp_offByOne ==
  /\ ~crashed
  /\ NoPromiseJob
  /\ IF historyIndex < Len(history)
     THEN LET newIndex == historyIndex + 1
          IN  /\ historyIndex' = newIndex
              /\ input' = IF newIndex < Len(history) THEN history[Len(history) - newIndex]
                           ELSE <<>>
     ELSE UNCHANGED << historyIndex, input >>
  /\ lastEvent' = "up"
  /\ UNCHANGED << lines, history, isProcessing, tasks, now, crashed, submits, reloads, created, raw, out, again >>

\* handleKeyDown, ArrowUp
KeyArrowUp ==
  /\ ~crashed
  /\ NoPromiseJob
  /\ IF historyIndex < Len(history) - 1
     THEN LET newIndex == historyIndex + 1
          IN  /\ historyIndex' = newIndex
              /\ input' = history[Len(history) - newIndex]
     ELSE UNCHANGED << historyIndex, input >>
  /\ lastEvent' = "up"
  /\ UNCHANGED << lines, history, isProcessing, tasks, now, crashed, submits, reloads, created, raw, out, again >>

\* KeyArrowDown emptying the history when it leaves the most recent entry
m_KeyArrowDown_dropHistory ==
  /\ ~crashed
  /\ NoPromiseJob
  /\ IF historyIndex > 0
     THEN LET newIndex == historyIndex - 1
          IN  /\ historyIndex' = newIndex
              /\ input' = history[Len(history) - newIndex]
              /\ UNCHANGED history
     ELSE IF historyIndex = 0
          THEN /\ historyIndex' = -1
               /\ input' = <<>>
               /\ history' = <<>>
          ELSE UNCHANGED << historyIndex, input, history >>
  /\ lastEvent' = "down"
  /\ UNCHANGED << lines, isProcessing, tasks, now, crashed, submits, reloads, created, raw, out, again >>

\* handleKeyDown, ArrowDown
KeyArrowDown ==
  /\ ~crashed
  /\ NoPromiseJob
  /\ IF historyIndex > 0
     THEN LET newIndex == historyIndex - 1
          IN  /\ historyIndex' = newIndex
              /\ input' = history[Len(history) - newIndex]
     ELSE IF historyIndex = 0
          THEN /\ historyIndex' = -1
               /\ input' = <<>>
          ELSE UNCHANGED << historyIndex, input >>
  /\ lastEvent' = "down"
  /\ UNCHANGED << lines, history, isProcessing, tasks, now, crashed, submits, reloads, created, raw, out, again >>

\* the line of the catch block of handleCommand (text abbreviated)
ErrorLine ==
  [ id |-> LineId("error-", now), type |-> "error",
    content |-> StringContent(<<"A", "n", " ", "e", "r", "r", "o", "r">>),
    displayedContent |-> StringContent(<<"A", "n", " ", "e", "r", "r", "o", "r">>), isComplete |-> TRUE ]

\* catch and finally of handleCommand, for the call in tasks[k]; ls is the
\* transcript the failed step leaves
CatchFinally(k, ls) ==
  /\ lines' = Append(ls, ErrorLine)
  /\ isProcessing' = FALSE
  /\ tasks' = RemoveAt(tasks, k)
  /\ crashed' = RenderThrows(lines')
  /\ UNCHANGED << input, history, historyIndex, reloads >>

\* renderOutputLine has returned: finally of handleCommand
Finally(k, ls) ==
  /\ lines' = ls
  /\ isProcessing' = FALSE
  /\ tasks' = RemoveAt(tasks, k)
  /\ crashed' = RenderThrows(lines')
  /\ UNCHANGED << input, history, historyIndex, reloads >>

\* renderOutputLine is suspended at its await, with locals t
Await(k, ls, t) ==
  /\ lines' = ls
  /\ tasks' = [tasks EXCEPT ![k] = t]
  /\ crashed' = RenderThrows(lines')
  /\ UNCHANGED << input, history, historyIndex, isProcessing, reloads >>

\* renderOutputLine(lineId, content, type) from its first statement up to its
\* first await, its return or its failure
StartRender(k, ls, lineId, content) ==
  LET t0 == [tasks[k] EXCEPT !.pc = "reveal", !.lineId = lineId, !.content = content]
  IN  CASE content.kind = "array" ->
             LET r == SegmentLoop(content.segs, <<>>, 0, 0)
             IN  IF r.status = "await"
                 THEN Await(k, setDisplayedContent(ls, lineId, ArrayContent(r.displayedSegments)),
                            [t0 EXCEPT !.displayedSegments = r.displayedSegments,
                                       !.currentSegmentIndex = r.currentSegmentIndex,
                                       !.currentCharIndex = r.currentCharIndex])
                 ELSE Finally(k, setComplete(ls, lineId))
        [] content.kind = "string" ->
             IF 0 < Len(content.str)
             THEN Await(k, setDisplayedContent(ls, lineId, StringContent(<<content.str[1]>>)),
                        [t0 EXCEPT !.displayedContent = <<content.str[1]>>, !.i = 0])
             ELSE Finally(k, setComplete(ls, lineId))
        [] OTHER -> \* contentStr.length of undefined: TypeError
             CatchFinally(k, ls)

\* the line handleCommand appends for a result that is not a sentinel
OutputLine(outputId, result) ==
  LET outputType == IF result.error THEN "error" ELSE "output"
  IN  [ id |-> outputId, type |-> outputType, content |-> result.content,
        displayedContent |-> StringContent(<<>>), isComplete |-> FALSE ]

\* HandleResult with clear leaving the history as it is
m_HandleResult_keepHistory(k, result) ==
  IF result.shape = "thrown"
  THEN CatchFinally(k, lines)
  ELSE IF result.content = CLEAR
  THEN /\ lines' = WelcomeLines
       /\ historyIndex' = -1
       /\ isProcessing' = FALSE
       /\ tasks' = RemoveAt(tasks, k)
       /\ crashed' = RenderThrows(lines')
       /\ UNCHANGED << input, history, reloads >>
  ELSE IF result.content = RELOAD
  THEN \* window.location.reload(): the page starts again
       /\ lines' = WelcomeLines
       /\ input' = <<>>
       /\ history' = <<>>
       /\ historyIndex' = -1
       /\ isProcessing' = FALSE
       /\ tasks' = <<>>
       /\ crashed' = FALSE
       /\ reloads' = reloads + 1
  ELSE LET outputId == LineId("output-", now)
       IN  StartRender(k, Append(lines, OutputLine(outputId, result)), outputId, result.content)

\* HandleResult without the branch for reload
m_HandleResult_noReload(k, result) ==
  IF result.shape = "thrown"
  THEN CatchFinally(k, lines)
  ELSE IF result.content = CLEAR
  THEN /\ lines' = WelcomeLines
       /\ history' = <<>>
       /\ historyIndex' = -1
       /\ isProcessing' = FALSE
       /\ tasks' = RemoveAt(tasks, k)
       /\ crashed' = RenderThrows(lines')
       /\ UNCHANGED << input, reloads >>
  ELSE LET outputId == LineId("output-", now)
       IN  StartRender(k, Append(lines, OutputLine(outputId, result)), outputId, result.content)

\* handleCommand after `await getCommandOutput(command)` has settled to result
HandleResult(k, result) ==
  IF result.shape = "thrown"
  THEN CatchFinally(k, lines)
  ELSE IF result.content = CLEAR
  THEN /\ lines' = WelcomeLines
       /\ history' = <<>>
       /\ historyIndex' = -1
       /\ isProcessing' = FALSE
       /\ tasks' = RemoveAt(tasks, k)
       /\ crashed' = RenderThrows(lines')
       /\ UNCHANGED << input, reloads >>
  ELSE IF result.content = RELOAD
  THEN \* window.location.reload(): the page starts again
       /\ lines' = WelcomeLines
       /\ input' = <<>>
       /\ history' = <<>>
       /\ historyIndex' = -1
       /\ isProcessing' = FALSE
       /\ tasks' = <<>>
       /\ crashed' = FALSE
       /\ reloads' = reloads + 1
  ELSE LET outputId == LineId("output-", now)
       IN  StartRender(k, Append(lines, OutputLine(outputId, result)), outputId, result.content)

\* the promise of getCommandOutput settles and handleCommand goes on
Dispatch ==
  /\ ~crashed
  /\ \E k \in 1..Len(tasks) :
       /\ tasks[k].pc = "dispatch"
       /\ \E d \in 0..MaxDraw :
            HandleResult(k, getCommandOutput(tasks[k].command, d).result)
  /\ lastEvent' = "dispatch"
  /\ created' = IF reloads' # reloads THEN Ids(WelcomeLines)
                ELSE created \o Ids(SubSeq(lines', Len(lines) + 1, Len(lines')))
  /\ UNCHANGED << now, submits, raw, out, again >>

\* ResumeRender taking two code units of a string at each timer
m_ResumeRender_twoUnits(k) ==
  LET t == tasks[k]
  IN  IF t.content.kind = "array"
      THEN LET r == SegmentResume(t.content.segs, t.displayedSegments,
                                  t.currentSegmentIndex, t.currentCharIndex)
           IN  IF r.status = "await"
               THEN Await(k, setDisplayedContent(lines, t.lineId, ArrayContent(r.displayedSegments)),
                          [t EXCEPT !.displayedSegments = r.displayedSegments,
                                    !.currentSegmentIndex = r.currentSegmentIndex,
                                    !.currentCharIndex = r.currentCharIndex])
               ELSE Finally(k, setComplete(lines, t.lineId))
      ELSE LET i    == t.i + 2
               last == IF i + 1 < Len(t.content.str) THEN i + 1 ELSE Len(t.content.str)
           IN  IF t.i + 1 < Len(t.content.str)
               THEN LET displayedContent == t.displayedContent \o SubSeq(t.content.str, t.i + 2, last)
                    IN  Await(k, setDisplayedContent(lines, t.lineId, StringContent(displayedContent)),
                              [t EXCEPT !.displayedContent = displayedContent, !.i = i])
               ELSE Finally(k, setComplete(lines, t.lineId))

\* renderOutputLine after one of its awaits
ResumeRender(k) ==
  LET t == tasks[k]
  IN  IF t.content.kind = "array"
      THEN LET r == SegmentResume(t.content.segs, t.displayedSegments,
                                  t.currentSegmentIndex, t.currentCharIndex)
           IN  IF r.status = "await"
               THEN Await(k, setDisplayedContent(lines, t.lineId, ArrayContent(r.displayedSegments)),
                          [t EXCEPT !.displayedSegments = r.displayedSegments,
                                    !.currentSegmentIndex = r.currentSegmentIndex,
                                    !.currentCharIndex = r.currentCharIndex])
               ELSE Finally(k, setComplete(lines, t.lineId))
      ELSE LET i == t.i + 1
           IN  IF i < Len(t.content.str)
               THEN LET displayedContent == t.displayedContent \o <<t.content.str[i + 1]>>
                    IN  Await(k, setDisplayedContent(lines, t.lineId, StringContent(displayedContent)),
                              [t EXCEPT !.displayedContent = displayedContent, !.i = i])
               ELSE Finally(k, setComplete(lines, t.lineId))

\* the timer of `await new Promise(resolve => setTimeout(resolve, TYPING_SPEED_MS))` fires
Tick ==
  /\ ~crashed
  /\ NoPromiseJob
  /\ \E k \in 1..Len(tasks) :
       /\ tasks[k].pc = "reveal"
       /\ ResumeRender(k)
  /\ now' = now + TYPING_SPEED_MS
  /\ lastEvent' = "tick"
  /\ UNCHANGED << submits, created, raw, out, again >>

Init ==
  /\ InitSession
  /\ raw = <<>>
  /\ out = NoCall
  /\ again = NoCall

Next == SetInput \/ KeyEnter \/ KeyArrowUp \/ KeyArrowDown \/ Dispatch \/ Tick

Spec == Init /\ [][Next]_vars

FairSpec == Spec /\ WF_vars(Dispatch) /\ WF_vars(Tick)

(***************************************************************************)
(* renderOutputLine on every content of RevealContents: the session has    *)
(* accepted one command and getCommandOutput has settled to a result with  *)
(* that content.                                                           *)
(***************************************************************************)
\* most segments of a content
MaxSegments == 2
\* most code units of a segment text
MaxTextLen == 2

RevealTexts == UNION { [1..n -> {"a", "b"}] : n \in 0..MaxTextLen }

RevealSegments ==
  { text_primary(t, TRUE) : t \in RevealTexts }
    \cup { TextSegment(t, "secondary", FALSE, <<"u">>) : t \in RevealTexts }

RevealStrings == UNION { [1..n -> {"a", "\n"}] : n \in 0..(MaxTextLen + 1) }

RevealContents ==
  { ArrayContent(a) : a \in UNION { [1..n -> RevealSegments] : n \in 0..MaxSegments } }
    \cup { StringContent(s) : s \in RevealStrings }

InitReveal ==
  /\ \E c \in RevealContents, e \in BOOLEAN :
       tasks = << [DispatchTask(<<"c", "m", "d">>) EXCEPT !.pc = "settled",
                                               !.result = CommandOutput(c, e)] >>
  /\ lines = Append(WelcomeLines,
               [ id |-> LineId("", Epoch), type |-> "command",
                 content |-> StringContent(<<"c", "m", "d">>),
                 displayedContent |-> StringContent(<<"c", "m", "d">>), isComplete |-> TRUE ])
  /\ input = <<>>
  /\ history = << <<"c", "m", "d">> >>
  /\ historyIndex = -1
  /\ isProcessing = TRUE
  /\ now = Epoch
  /\ crashed = FALSE
  /\ submits = 1
  /\ lastEvent = "enter"
  /\ reloads = 0
  /\ created = Ids(lines)
  /\ raw = <<>>
  /\ out = NoCall
  /\ again = NoCall

\* handleCommand goes on with the settled result
Settle ==
  /\ ~crashed
  /\ \E k \in 1..Len(tasks) :
       /\ tasks[k].pc = "settled"
       /\ HandleResult(k, tasks[k].result)
  /\ lastEvent' = "dispatch"
  /\ created' = IF reloads' # reloads THEN Ids(WelcomeLines)
                ELSE created \o Ids(SubSeq(lines', Len(lines) + 1, Len(lines')))
  /\ UNCHANGED << now, submits, raw, out, again >>

NextReveal == Settle \/ Tick

SpecReveal == InitReveal /\ [][NextReveal]_vars

(***************************************************************************)
(* The earlier variant: lib/commands.ts with string results and the        *)
(* Terminal of pages/Home.tsx.  Texts are cut to a few code units; line    *)
(* breaks keep their places.                                               *)
(***************************************************************************)
PORTFOLIO_DATA_str ==
  [ email |-> <<"m", "@", "d">>,
    about |-> <<"\n", "A", "\n", "\n", "I", "\n", " ", " ">>,
    social |-> [ github |-> <<"h", ":", "g">>, linkedin |-> <<"h", ":", "l">>, twitter |-> <<"h", ":", "t">>, portfolio |-> <<"h", ":", "p">> ],
    projects |-> << [ name |-> <<"A", "l", "p", "h", "a">>, description |-> <<"d", "1">>, link |-> <<"h", ":", "g", "/", "a">> ],
                    [ name |-> <<"B", "e", "t", "a">>,  description |-> <<"d", "2">>, link |-> <<"h", ":", "g", "/", "b">> ],
                    [ name |-> <<"G", "a", "m", "m", "a">>, description |-> <<"d", "3">>, link |-> <<"h", ":", "g", "/", "c">> ] >>,
    stack |-> << [ category |-> <<"F", "e">>, tech |-> <<"R">> ],
                 [ category |-> <<"B", "e">>, tech |-> <<"N">> ],
                 [ category |-> <<"D", "b">>, tech |-> <<"P">> ],
                 [ category |-> <<"D", "o">>, tech |-> <<"D">> ],
                 [ category |-> <<"T", "o">>, tech |-> <<"G">> ] >>,
    resume |-> <<"h", ":", "c", "v">> ]

commands_str_help == CommandOutput(StringContent(<<"\n", "H", "\n", "\n", "a", "\n", " ">>), FALSE)

commands_str_about == CommandOutput(StringContent(PORTFOLIO_DATA_str.about), FALSE)

commands_str_email ==
  CommandOutput(StringContent(<<"HS", "LS", ":">> \o PORTFOLIO_DATA_str.email), FALSE)

commands_str_social ==
  CommandOutput(StringContent(
    <<"\n", "S", "\n", "\n", "G", "i", "t", "H", "u", "b", ":", " ">> \o PORTFOLIO_DATA_str.social.github
      \o <<"\n", "L", "i", "n", "k", "e", "d", "I", "n", ":", " ">> \o PORTFOLIO_DATA_str.social.linkedin
      \o <<"\n", "T", "w", "i", "t", "t", "e", "r", ":", " ">> \o PORTFOLIO_DATA_str.social.twitter
      \o <<"\n", "P", "o", "r", "t", "f", "o", "l", "i", "o", ":", " ">> \o PORTFOLIO_DATA_str.social.portfolio \o <<"\n", " ">>), FALSE)

commands_str_projects ==
  LET P == PORTFOLIO_DATA_str.projects
      entry(project, idx) ==
        <<"\n">> \o NumberTag(idx + 1) \o project.name
          \o <<"\n", " ", " ", " ", " ">> \o project.description
          \o <<"\n", " ", " ", " ", " ", "L", "i", "n", "k", ":", " ">> \o project.link \o <<"\n">>
  IN  CommandOutput(StringContent(
        <<"\n", "P", "\n">> \o flat([i \in 1..Len(P) |-> entry(P[i], i - 1)])), FALSE)

commands_str_stack ==
  LET T == PORTFOLIO_DATA_str.stack
      entry(item) == <<"\n", ">", " ">> \o item.category \o <<":", " ">> \o item.tech
  IN  CommandOutput(StringContent(
        <<"\n", "T", "\n">> \o flat([i \in 1..Len(T) |-> entry(T[i])])), FALSE)

commands_str_blog == CommandOutput(StringContent(<<"\n", "B", "\n", "\n", "s", "o", "o", "n", "\n", "\n", "B", "l", "o", "g", ":", " ", "h", ":", "b", "\n", " ">>), FALSE)

commands_str_videos == CommandOutput(StringContent(<<"\n", "V", "\n", "\n", "s", "o", "o", "n", "\n", "\n", "Y", "o", "u", "T", "u", "b", "e", ":", " ", "h", ":", "y", "\n", " ">>), FALSE)

commands_str_podcasts == CommandOutput(StringContent(<<"\n", "C", "\n", "\n", "s", "o", "o", "n", "\n", "\n", "S", "p", "o", "t", "i", "f", "y", ":", " ", "h", ":", "s", "\n", " ">>), FALSE)

commands_str_resume ==
  CommandOutput(StringContent(
    <<"\n", "R", "\n", "\n", "D", "o", "w", "n", "l", "o", "a", "d", ":", " ">> \o PORTFOLIO_DATA_str.resume \o <<"\n", "\n", "O", "r", ":", " ", "h", ":", "v", "\n", " ">>), FALSE)

commands_str_history == CommandOutput(StringContent(<<"\n", "Y", "\n", "\n", "U", "s", "e", " ", "a", "r", "r", "o", "w", " ", "k", "e", "y", "s", "\n", " ">>), FALSE)

\* the table of this variant has no sudo
CommandNames_str == CommandNames \ { n_sudo }

\* commands[command](args) of this variant
commands_str(command, args) ==
  LET returns(v) == [threw |-> FALSE, value |-> v, message |-> <<>>]
  IN  CASE command = n_help     -> returns(commands_str_help)
        [] command = n_about    -> returns(commands_str_about)
        [] command = n_email    -> returns(commands_str_email)
        [] command = n_social   -> returns(commands_str_social)
        [] command = n_projects -> returns(commands_str_projects)
        [] command = n_stack    -> returns(commands_str_stack)
        [] command = n_blog     -> returns(commands_str_blog)
        [] command = n_videos   -> returns(commands_str_videos)
        [] command = n_podcasts -> returns(commands_str_podcasts)
        [] command = n_resume   -> returns(commands_str_resume)
        [] command = n_history  -> returns(commands_str_history)
        [] command = n_clear    -> returns(commands_clear)
        [] command = n_reload   -> returns(commands_reload)
        [] command = n_constructor -> returns(ArrayValue(args))
        [] OTHER -> [threw |-> TRUE, value |-> ArrayValue(<<>>), message |-> NotAFunction]

\* `[ERROR]Error executing command: ${error.message}[/ERROR]`, abbreviated
HandlerFailure_str(message) ==
  CommandOutput(StringContent(<<"[", "E", "]", "E", "r", "r", "o", "r", ":", " ">> \o message \o <<"[", "/", "E", "]">>), TRUE)

\* `[ERROR]Command not found: ${command}. Type "help" ...[/ERROR]`, abbreviated
CommandNotFound_str(command) ==
  CommandOutput(StringContent(<<"[", "E", "]", "N", "o", ":", " ">> \o command \o <<"[", "/", "E", "]">>), TRUE)

\* getCommandOutput of this variant
getCommandOutput_str(text) ==
  LET command == ParsedCommand(text)
      args    == ParsedArgs(text)
      done(r, inv) == [result |-> r, command |-> command, args |-> args, invoked |-> inv]
  IN  IF command = n_clear THEN done(CommandOutput(CLEAR, FALSE), FALSE)
      ELSE IF command = n_reload THEN done(CommandOutput(RELOAD, FALSE), FALSE)
      ELSE IF command \in CommandNames_str \cup InheritedNames
           THEN LET call == commands_str(command, args)
                IN  IF call.threw THEN done(HandlerFailure_str(call.message), TRUE)
                    ELSE done(call.value, TRUE)
           ELSE done(CommandNotFound_str(command), FALSE)

\* delay between characters in renderOutputLine of pages/Home.tsx
HOME_TYPING_MS == 15

\* what the user types in this variant
HomeInputs == { <<"e", "m", "a", "i", "l">>, <<"h", "e", "l", "p">>, <<"z", "z">>, <<"c", "o", "n", "s", "t", "r", "u", "c", "t", "o", "r">>, <<"c", "l", "e", "a", "r">>, <<"r", "e", "l", "o", "a", "d">>, <<" ">> }

\* String.prototype.split('\n')
RECURSIVE splitLines(_)
splitLines(s) ==
  IF \E i \in 1..Len(s) : s[i] = "\n"
  THEN LET i == CHOOSE k \in 1..Len(s) : s[k] = "\n" /\ \A j \in 1..(k - 1) : s[j] # "\n"
       IN  <<SubSeq(s, 1, i - 1)>> \o splitLines(SubSeq(s, i + 1, Len(s)))
  ELSE <<s>>

\* `${lineId}-${lineNum}`
SubLineId(lineId, lineNum) == [prefix |-> lineId.prefix, n |-> lineId.n, sub |-> lineNum]

\* TerminalOutput of this variant hands the painted content of an output
\* line to parseColoredOutput, which calls split on it
HomeRenderThrows(ls) ==
  \E i \in 1..Len(ls) : ls[i].type = "output" /\ Painted(ls[i]).kind = "undefined"

\* a call of handleCommand suspended at an await: `snapshot` is the `lines`
\* of the render the key handler was made in, the other fields are the
\* locals of renderOutputLine
HomeTask(command, snapshot) ==
  [ pc |-> "dispatch", command |-> command, snapshot |-> snapshot,
    lineId |-> LineId("", 0), type |-> "output", lines_copy |-> <<>>,
    contentLines |-> <<>>, lineNum |-> 0, i |-> 0, lineDisplayedContent |-> <<>> ]

RECURSIVE HomeLineLoop(_, _, _)
RECURSIVE HomeCharLoop(_, _, _)
\* renderOutputLine of pages/Home.tsx at the head of its outer loop, with
\* locals t, the transcript ls and the ids given so far: runs to the next
\* await ("await") or to the return ("done")
HomeLineLoop(t, ls, ids) ==
  IF t.lineNum < Len(t.contentLines)
  THEN LET currentLine  == t.contentLines[t.lineNum + 1]
           targetLineId == IF t.lineNum = 0 THEN t.lineId ELSE SubLineId(t.lineId, t.lineNum)
           pushed == Append(t.lines_copy,
                       [ id |-> targetLineId, type |-> t.type,
                         content |-> StringContent(currentLine),
                         displayedContent |-> StringContent(<<>>), isComplete |-> FALSE ])
           t1 == [t EXCEPT !.i = 0, !.lineDisplayedContent = <<>>]
       IN  IF t.lineNum > 0
           THEN HomeCharLoop([t1 EXCEPT !.lines_copy = pushed], pushed, Append(ids, targetLineId))
           ELSE HomeCharLoop(t1, ls, ids)
  ELSE [status |-> "done", t |-> t, ls |-> ls, ids |-> ids]

\* the same at the head of its inner loop
HomeCharLoop(t, ls, ids) ==
  LET currentLine  == t.contentLines[t.lineNum + 1]
      targetLineId == IF t.lineNum = 0 THEN t.lineId ELSE SubLineId(t.lineId, t.lineNum)
  IN  IF t.i < Len(currentLine)
      THEN LET lineDisplayedContent == t.lineDisplayedContent \o <<currentLine[t.i + 1]>>
               copy == setDisplayedContent(t.lines_copy, targetLineId,
                                           StringContent(lineDisplayedContent))
           IN  [ status |-> "await",
                 t |-> [t EXCEPT !.lines_copy = copy,
                                 !.lineDisplayedContent = lineDisplayedContent],
                 ls |-> copy, ids |-> ids ]
      ELSE LET copy == setComplete(t.lines_copy, targetLineId)
           IN  HomeLineLoop([t EXCEPT !.lines_copy = copy, !.lineNum = t.lineNum + 1], copy, ids)

\* onChange of the input element, which is disabled while isProcessing
HomeSetInput ==
  /\ ~crashed
  /\ NoPromiseJob
  /\ ~isProcessing
  /\ \E v \in HomeInputs \cup {<<>>} :
       /\ v # input
       /\ input' = v
  /\ lastEvent' = "change"
  /\ UNCHANGED << lines, history, historyIndex, isProcessing, tasks, now, crashed,
                  submits, reloads, created, raw, out, again >>

\* handleKeyDown, Enter, of pages/Home.tsx: handleCommand(input) up to its
\* first await
HomeKeyEnter ==
  /\ ~crashed
  /\ NoPromiseJob
  /\ ~isProcessing
  /\ IF trim(input) # <<>>
     THEN /\ submits < MaxSubmits
          /\ \E dt \in 0..MaxThink : now' = now + dt
          /\ history' = Append(history, input)
          /\ historyIndex' = -1
          /\ lines' = Append(lines,
                        [ id |-> LineId("", now'), type |-> "command",
                          content |-> StringContent(input),
                          displayedContent |-> StringContent(input),
                          isComplete |-> TRUE ])
          /\ input' = <<>>
          /\ isProcessing' = TRUE
          /\ tasks' = Append(tasks, HomeTask(input, lines))
          /\ submits' = submits + 1
          /\ lastEvent' = "enter"
          /\ created' = Append(created, LineId("", now'))
          /\ UNCHANGED << crashed, reloads, raw, out, again >>
     ELSE /\ lastEvent' = "enter"
          /\ UNCHANGED << lines, input, history, historyIndex, isProcessing, tasks, now,
                          crashed, submits, reloads, created, raw, out, again >>

\* handleKeyDown, ArrowUp and ArrowDown, of pages/Home.tsx
HomeKeyArrowUp == ~isProcessing /\ KeyArrowUp

HomeKeyArrowDown == ~isProcessing /\ KeyArrowDown

\* renderOutputLine of pages/Home.tsx has come to an await or to its return
\* with the outcome r; more is what handleCommand appended before the call
HomeRendered(k, r, more) ==
  /\ lines' = r.ls
  /\ created' = created \o more \o r.ids
  /\ crashed' = HomeRenderThrows(lines')
  /\ IF r.status = "await"
     THEN /\ tasks' = [tasks EXCEPT ![k] = [r.t EXCEPT !.pc = "reveal"]]
          /\ UNCHANGED isProcessing
     ELSE /\ tasks' = RemoveAt(tasks, k)
          /\ isProcessing' = FALSE
  /\ UNCHANGED << input, history, historyIndex, reloads >>

\* handleCommand of pages/Home.tsx after `await getCommandOutput(command)`
HomeHandleResult(k, result) ==
  IF result.content = CLEAR
  THEN /\ lines' = WelcomeLines
       /\ history' = <<>>
       /\ historyIndex' = -1
       /\ isProcessing' = FALSE
       /\ tasks' = RemoveAt(tasks, k)
       /\ crashed' = HomeRenderThrows(lines')
       /\ UNCHANGED << input, reloads, created >>
  ELSE IF result.content = RELOAD
  THEN /\ lines' = WelcomeLines
       /\ input' = <<>>
       /\ history' = <<>>
       /\ historyIndex' = -1
       /\ isProcessing' = FALSE
       /\ tasks' = <<>>
       /\ crashed' = FALSE
       /\ reloads' = reloads + 1
       /\ created' = Ids(WelcomeLines)
  ELSE LET outputId  == LineId("output-", now)
           added     == Append(lines, OutputLine(outputId, result))
           lineIndex == findIndex(tasks[k].snapshot, outputId)
           t0 == [tasks[k] EXCEPT !.lineId = outputId,
                                  !.type = IF result.error THEN "error" ELSE "output",
                                  !.lines_copy = tasks[k].snapshot,
                                  !.contentLines = splitLines(result.content.str),
                                  !.lineNum = 0]
       IN  IF lineIndex = 0
           THEN \* if (lineIndex === -1) return;
                HomeRendered(k, [status |-> "done", t |-> t0, ls |-> added, ids |-> <<>>],
                             << outputId >>)
           ELSE IF result.content.kind # "string"
           THEN \* content.split of undefined: TypeError, catch and finally
                /\ lines' = Append(added, ErrorLine)
                /\ created' = created \o << outputId, ErrorLine.id >>
                /\ isProcessing' = FALSE
                /\ tasks' = RemoveAt(tasks, k)
                /\ crashed' = HomeRenderThrows(lines')
                /\ UNCHANGED << input, history, historyIndex, reloads >>
           ELSE HomeRendered(k, HomeLineLoop(t0, added, <<>>), << outputId >>)

\* the promise of getCommandOutput settles and handleCommand goes on
HomeDispatch ==
  /\ ~crashed
  /\ \E k \in 1..Len(tasks) :
       /\ tasks[k].pc = "dispatch"
       /\ HomeHandleResult(k, getCommandOutput_str(tasks[k].command).result)
  /\ lastEvent' = "dispatch"
  /\ UNCHANGED << now, submits, raw, out, again >>

\* the timer of the await of renderOutputLine fires: i++, then the inner loop
HomeTick ==
  /\ ~crashed
  /\ NoPromiseJob
  /\ \E k \in 1..Len(tasks) :
       /\ tasks[k].pc = "reveal"
       /\ HomeRendered(k, HomeCharLoop([tasks[k] EXCEPT !.i = tasks[k].i + 1], lines, <<>>),
                       <<>>)
  /\ now' = now + HOME_TYPING_MS
  /\ lastEvent' = "tick"
  /\ UNCHANGED << submits, raw, out, again >>

NextHome ==
  HomeSetInput \/ HomeKeyEnter \/ HomeKeyArrowUp \/ HomeKeyArrowDown \/ HomeDispatch \/ HomeTick

SpecHome == Init /\ [][NextHome]_vars

(***************************************************************************)
(* Properties of getCommandOutput (specification SpecResolve).             *)
(***************************************************************************)
\* the handler looked up for the call raised a failure
HandlerRaised == out.invoked /\ commands(out.command, out.args, 0).threw

\* C6: getCommandOutput never settles to a failure, whatever the input; when
\* the handler it calls raises a failure, the result is an error result
\* (error = true) one of whose segments is the message of the failure.
C6_ResolveNeverThrows ==
  Resolved =>
    /\ out.result.shape # "thrown"
    /\ HandlerRaised =>
         /\ out.result.shape = "CommandOutput"
         /\ out.result.error = TRUE
         /\ out.result.content.kind = "array"
         /\ \E i \in 1..Len(out.result.content.segs) :
              out.result.content.segs[i].text = commands(out.command, out.args, 0).message

\* a call whose handler raised a failure has returned
C6_Witness ==
  Resolved /\ HandlerRaised /\ out.command = n___proto__ /\ out.result.error = TRUE

\* C7: a non-blank input whose command token is not a name of the command
\* table (and is not clear or reload) resolves to a well-formed error result
\* that echoes the token and names the help command.
C7_UnknownTokenIsReported ==
  (Resolved /\ trim(raw) # <<>> /\ out.command \notin CommandNames) =>
    /\ out.result.shape = "CommandOutput"
    /\ out.result.error = TRUE
    /\ out.result.content.kind = "array"
    /\ \E i \in 1..Len(out.result.content.segs) :
         includes(out.result.content.segs[i].text, out.command)
    /\ \E i \in 1..Len(out.result.content.segs) :
         out.result.content.segs[i].text = n_help

\* the tokens of the command surface other than clear and reload
CommandSurface == CommandNames \ { n_clear, n_reload }

\* C8: every command of the command surface other than clear and reload,
\* with any arguments, resolves to a result with error = false.
C8_RegisteredCommandsSucceed ==
  (Resolved /\ out.command \in CommandSurface) =>
    /\ out.result.shape = "CommandOutput"
    /\ out.result.error = FALSE

\* sudo has been resolved with an argument that is no update command
C8_Witness ==
  /\ Resolved
  /\ out.command = n_sudo
  /\ out.args = << <<"f", "o", "o">> >>
  /\ out.result.error = FALSE

\* C9: an input whose command token is clear (reload) resolves to the CLEAR
\* (RELOAD) result whatever the arguments, and the command table is not
\* consulted for it.
C9_SentinelsShortCircuit ==
  /\ (Resolved /\ out.command = n_clear) =>
       (out.result = CommandOutput(CLEAR, FALSE) /\ ~out.invoked)
  /\ (Resolved /\ out.command = n_reload) =>
       (out.result = CommandOutput(RELOAD, FALSE) /\ ~out.invoked)

\* clear has been resolved with an argument after it
C9_Witness ==
  /\ Resolved
  /\ out.command = n_clear
  /\ out.args # <<>>
  /\ out.result.content = CLEAR

\* the tokens of a string: the maximal runs of code units that are neither a
\* space nor a tab
RECURSIVE WhitespaceTokens(_)
WhitespaceTokens(s) ==
  LET t == trimStart(s)
  IN  IF t = <<>> THEN <<>>
      ELSE LET n == IF \E i \in 1..Len(t) : t[i] \in WhiteSpace
                    THEN (CHOOSE k \in 1..Len(t) :
                            t[k] \in WhiteSpace /\ \A j \in 1..(k - 1) : t[j] \notin WhiteSpace) - 1
                    ELSE Len(t)
           IN  <<SubSeq(t, 1, n)>> \o WhitespaceTokens(SubSeq(t, n + 1, Len(t)))

\* C10: the command is the first whitespace-separated token of the input in
\* lower case, and the arguments are the remaining tokens exactly as typed.
C10_TokensAsTyped ==
  (Resolved /\ trim(raw) # <<>>) =>
    /\ out.command = toLowerCase(Head(WhitespaceTokens(raw)))
    /\ out.args = Tail(WhitespaceTokens(raw))

(***************************************************************************)
(* Properties of the session and of the renderer.                          *)
(***************************************************************************)
\* C1: Enter pressed while isProcessing is true changes nothing: no line is
\* added to the transcript, and history, historyIndex, input and
\* isProcessing keep their values.
C1_SubmitWhileBusyIsNoOp ==
  [][ (lastEvent' = "enter" /\ isProcessing) =>
        UNCHANGED << lines, history, historyIndex, input, isProcessing, tasks >> ]_vars

\* Enter has been pressed on a non-blank input while a command was in flight
C1_Witness ==
  /\ lastEvent = "enter"
  /\ isProcessing
  /\ trim(input) # <<>>
  /\ \E k \in 1..Len(tasks) : tasks[k].pc = "reveal"

Incomplete(ls) == { i \in 1..Len(ls) : ~ls[i].isComplete }

\* the ids of the lines of ls whose revealed content or completeness differs in ls2
Revealed(ls, ls2) ==
  { ls[i].id : i \in { j \in 1..Len(ls) :
                         /\ j <= Len(ls2)
                         /\ ls2[j].id = ls[j].id
                         /\ \/ ls2[j].displayedContent # ls[j].displayedContent
                            \/ ls2[j].isComplete # ls[j].isComplete } }

\* C2: at most one line of the transcript is incomplete at any time, and a
\* step that reveals more of one line happens only while every other line
\* is complete.
C2_SingleReveal ==
  /\ [](Cardinality(Incomplete(lines)) <= 1)
  /\ [][ \A id \in Revealed(lines, lines') :
           \A j \in 1..Len(lines) : lines[j].id # id => lines[j].isComplete ]_vars

\* a reveal is under way after an earlier command has been revealed in full
C2_Witness ==
  /\ Cardinality(Incomplete(lines)) = 1
  /\ lastEvent = "tick"
  /\ \E i, j \in 1..Len(lines) :
       /\ i < j
       /\ lines[i].type \in {"output", "error"} /\ lines[i].isComplete
       /\ lines[j].type \in {"output", "error"} /\ ~lines[j].isComplete

IsPrefix(s, t) == Len(s) <= Len(t) /\ SubSeq(t, 1, Len(s)) = s

\* a is a proper prefix of b: segment by segment, then code unit by code
\* unit within the last segment of a
StrictPrefix(a, b) ==
  /\ a # b
  /\ \/ a.kind = "string" /\ b.kind = "string" /\ IsPrefix(a.str, b.str)
     \/ a = StringContent(<<>>) /\ b.kind = "array"
     \/ /\ a.kind = "array" /\ b.kind = "array"
        /\ Len(a.segs) <= Len(b.segs)
        /\ \A i \in 1..Len(a.segs) :
             /\ [a.segs[i] EXCEPT !.text = <<>>] = [b.segs[i] EXCEPT !.text = <<>>]
             /\ IF i < Len(a.segs) THEN a.segs[i].text = b.segs[i].text
                ELSE IsPrefix(a.segs[i].text, b.segs[i].text)

\* C3: whenever a step changes the revealed content of a line, the content
\* before the step is a proper prefix of the content after it, for string
\* and for segmented content (so the revealed content never shrinks), and a
\* timer step that leaves the line incomplete does change it.
C3_RevealGrowsByPrefix ==
  [][ \A i \in 1..Len(lines) :
        (i <= Len(lines') /\ lines'[i].id = lines[i].id)
        => /\ lines'[i].displayedContent # lines[i].displayedContent
                => StrictPrefix(lines[i].displayedContent, lines'[i].displayedContent)
           /\ (lastEvent' = "tick" /\ ~lines'[i].isComplete /\ tasks' # tasks)
                => lines'[i].displayedContent # lines[i].displayedContent ]_vars

\* a tick has carried a segmented reveal into its second segment
C3_Witness ==
  /\ lastEvent = "tick"
  /\ \E i \in 1..Len(lines) :
       /\ ~lines[i].isComplete
       /\ lines[i].displayedContent.kind = "array"
       /\ Len(lines[i].displayedContent.segs) = 2
       /\ lines[i].displayedContent.segs[2].text # <<>>

\* C4: a line is complete only if its revealed content equals its content,
\* and a complete line stays complete.
C4_CompleteMeansFullyRevealed ==
  /\ [](\A i \in 1..Len(lines) :
          lines[i].isComplete => lines[i].displayedContent = lines[i].content)
  /\ [][ \A i \in 1..Len(lines) :
           (i <= Len(lines') /\ lines'[i].id = lines[i].id /\ lines[i].isComplete)
           => lines'[i].isComplete ]_vars

\* the line the last accepted command produced: the one after its echo
LastCommand(ls) ==
  CHOOSE i \in 1..Len(ls) : ls[i].type = "command" /\ \A j \in (i + 1)..Len(ls) : ls[j].type # "command"

OutputRevealed ==
  /\ ~isProcessing
  /\ \E i \in 1..Len(lines) : lines[i].type = "command"
  /\ LastCommand(lines) < Len(lines)
  /\ lines[LastCommand(lines) + 1].isComplete

\* a command that is neither clear nor reload has just been accepted
AcceptedForOutput ==
  /\ lastEvent = "enter"
  /\ \E k \in 1..Len(tasks) :
       /\ tasks[k].pc = "dispatch"
       /\ ParsedCommand(tasks[k].command) \notin { n_clear, n_reload }

\* C5: every accepted command that is neither clear nor reload leads to a
\* state where its output line is complete and isProcessing is false.
C5_RevealTerminates == AcceptedForOutput ~> OutputRevealed

(***************************************************************************)
(* Resolving the same input twice.                                         *)
(***************************************************************************)
ResolvedTwice == Resolved /\ again.result.shape # "none"

\* the call went to commands.sudo with arguments that select the update
\* transcript
SudoUpdate ==
  /\ out.command = n_sudo
  /\ \/ Len(out.args) = 0
     \/ includes(join(out.args), <<"u", "p", "d", "a", "t", "e">>)
     \/ includes(join(out.args), <<"u", "p", "g", "r", "a", "d", "e">>)
     \/ includes(join(out.args), <<"i", "n", "s", "t", "a", "l", "l">>)

\* C11 as stated: two resolutions of the same input whose command token is
\* a registered command (sudo included, with and without arguments) give
\* the same result: same segments, same text, same error flag.
C11_ResolveTwiceSame ==
  (ResolvedTwice /\ out.command \in CommandNames) => again.result = out.result

\* C11 amended: the same holds for every registered command except sudo
\* called with no argument or with update, upgrade or install.
C11_ResolveTwiceSameButUpdate ==
  (ResolvedTwice /\ out.command \in CommandNames /\ ~SudoUpdate) => again.result = out.result

\* sudo with another argument has been resolved twice
C11_Witness ==
  /\ ResolvedTwice
  /\ out.command = n_sudo
  /\ out.args = << <<"f", "o", "o">> >>
  /\ again.result = out.result

(***************************************************************************)
(* History navigation.                                                     *)
(***************************************************************************)
RECURSIVE Submitted(_)
\* the texts of the command lines of a transcript, oldest first
Submitted(ls) ==
  IF ls = <<>> THEN <<>>
  ELSE IF ls[1].type = "command" THEN << ls[1].content.str >> \o Submitted(Tail(ls))
  ELSE Submitted(Tail(ls))

\* C12: with c1..cn the commands echoed in the transcript (those submitted
\* since the last clear), an ArrowUp below the oldest entry moves the
\* cursor from j to j + 1 and puts c(n - (j + 1)) in the input, so that k
\* presses from cursor -1 give cursor k - 1 and entry c(n - k + 1); an
\* ArrowUp at the oldest entry and an ArrowDown at cursor -1 change
\* neither; an ArrowDown at cursor j > 0 gives cursor j - 1 and the next
\* more recent entry; an ArrowDown at cursor 0 empties the input and gives
\* cursor -1.
C12_HistoryNavigation ==
  [][ LET c == Submitted(lines)
          n == Len(c)
          j == historyIndex
      IN  /\ lastEvent' = "up" =>
                IF j < n - 1
                THEN historyIndex' = j + 1 /\ input' = c[n - (j + 1)]
                ELSE UNCHANGED << historyIndex, input >>
          /\ lastEvent' = "down" =>
                IF j > 0
                THEN historyIndex' = j - 1 /\ input' = c[n - (j - 1)]
                ELSE IF j = 0
                THEN historyIndex' = -1 /\ input' = <<>>
                ELSE UNCHANGED << historyIndex, input >> ]_vars

\* two different commands were submitted; two ArrowUp and one ArrowDown
\* have brought back the more recent one
C12_Witness ==
  /\ lastEvent = "down"
  /\ ~isProcessing
  /\ Len(history) = 2
  /\ history[1] # history[2]
  /\ historyIndex = 0
  /\ input = history[2]

\* C13: -1 <= historyIndex <= Len(history) - 1 in every reachable state.
C13_CursorInRange ==
  /\ -1 <= historyIndex
  /\ historyIndex <= Len(history) - 1

\* ArrowUp has reached the oldest of two entries
C13_Witness ==
  /\ lastEvent = "up"
  /\ Len(history) = 2
  /\ historyIndex = Len(history) - 1

\* C14: an ArrowUp or ArrowDown pressed while isProcessing is true changes
\* neither input nor historyIndex.
C14_NoNavigationWhileBusy ==
  [][ (lastEvent' \in {"up", "down"} /\ isProcessing)
      => UNCHANGED << input, historyIndex >> ]_vars

\* C15: an ArrowUp or ArrowDown changes neither lines, history nor
\* isProcessing.
C15_NavigationOnlyMovesCursor ==
  [][ lastEvent' \in {"up", "down"} => UNCHANGED << lines, history, isProcessing >> ]_vars

\* an ArrowUp has just recalled the last submitted command
C15_Witness ==
  /\ lastEvent = "up"
  /\ historyIndex = 0
  /\ history # <<>>
  /\ input = history[Len(history)]
  /\ trim(input) # <<>>

(***************************************************************************)
(* Submitting.                                                             *)
(***************************************************************************)
\* the call of handleCommand whose getCommandOutput has just settled gets
\* the content s
Settling(s) ==
  \E k \in 1..Len(tasks) :
    /\ tasks[k].pc = "dispatch"
    /\ getCommandOutput(tasks[k].command, 0).result.content = s

\* C16: the step that handles a result with content CLEAR leaves exactly
\* the two welcome lines, both complete, an empty history, historyIndex -1,
\* isProcessing false and no suspended reveal (so no timer of that
\* submission fires).
C16_ClearResets ==
  [][ (lastEvent' = "dispatch" /\ Settling(CLEAR))
      => /\ lines' = WelcomeLines
         /\ Len(lines') = 2
         /\ \A i \in 1..Len(lines') : lines'[i].type = "welcome" /\ lines'[i].isComplete
         /\ history' = <<>>
         /\ historyIndex' = -1
         /\ ~isProcessing'
         /\ tasks' = <<>> ]_vars

\* clear has been handled after the output of an earlier command was
\* revealed (the clock is past what the submissions alone can add), with no
\* reload
C16_Witness ==
  /\ lastEvent = "dispatch"
  /\ reloads = 0
  /\ submits >= 2
  /\ now > Epoch + MaxSubmits * MaxThink
  /\ lines = WelcomeLines
  /\ history = <<>>
  /\ ~isProcessing

\* C17: Enter on an input that is empty or only white space changes
\* neither lines, history, historyIndex, input nor isProcessing, and starts
\* no call of getCommandOutput.
C17_BlankSubmitIsNoOp ==
  [][ (lastEvent' = "enter" /\ trim(input) = <<>>)
      => UNCHANGED << lines, history, historyIndex, input, isProcessing, tasks >> ]_vars

\* Enter was pressed on an input holding one space, the session idle
C17_Witness ==
  /\ lastEvent = "enter"
  /\ input = <<" ">>
  /\ ~isProcessing
  /\ tasks = <<>>

\* C18: Enter on a non-blank input while isProcessing is false appends one
\* command line, complete, whose content and displayedContent are the input
\* as typed, appends the input to history, sets historyIndex to -1, empties
\* the input and sets isProcessing, and leaves the call of getCommandOutput
\* pending: its result has not been acted on.
C18_AcceptedSubmit ==
  [][ (lastEvent' = "enter" /\ trim(input) # <<>> /\ ~isProcessing)
      => /\ Len(lines') = Len(lines) + 1
         /\ SubSeq(lines', 1, Len(lines)) = lines
         /\ LET l == lines'[Len(lines')]
            IN  /\ l.type = "command"
                /\ l.isComplete
                /\ l.content = StringContent(input)
                /\ l.displayedContent = StringContent(input)
         /\ history' = Append(history, input)
         /\ historyIndex' = -1
         /\ input' = <<>>
         /\ isProcessing'
         /\ Len(tasks') = Len(tasks) + 1
         /\ tasks'[Len(tasks')].pc = "dispatch"
         /\ tasks'[Len(tasks')].command = input ]_vars

\* a second command, typed with a leading space, has just been accepted
C18_Witness ==
  /\ lastEvent = "enter"
  /\ isProcessing
  /\ input = <<>>
  /\ Len(history) = 2
  /\ history[2] = <<" ", "Z", "z">>
  /\ lines[Len(lines)].type = "command"
  /\ lines[Len(lines)].displayedContent = StringContent(<<" ", "Z", "z">>)
  /\ \E k \in 1..Len(tasks) : tasks[k].pc = "dispatch"

\* C19: the step that handles a result with content CLEAR or RELOAD adds
\* no output line and no error line, and no output or error line of the
\* transcript ever has CLEAR or RELOAD as its content.
C19_SentinelsIntercepted ==
  /\ [](\A i \in 1..Len(lines) :
          lines[i].type \in {"output", "error"} => lines[i].content \notin {CLEAR, RELOAD})
  /\ [][ (lastEvent' = "dispatch" /\ (Settling(CLEAR) \/ Settling(RELOAD)))
         => \A i \in 1..Len(lines') :
              lines'[i].type \in {"output", "error"}
              => i <= Len(lines) /\ lines[i] = lines'[i] ]_vars

\* reload has been handled after the output of an earlier command was
\* revealed
C19_Witness ==
  /\ lastEvent = "dispatch"
  /\ reloads = 1
  /\ submits >= 2
  /\ now > Epoch + MaxSubmits * MaxThink
  /\ \A i \in 1..Len(lines) : lines[i].type \notin {"output", "error"}

\* the call of handleCommand whose getCommandOutput has just settled will
\* raise: the promise is rejected, or the content is neither a string nor
\* an array and renderOutputLine reads its length
FailureRaised ==
  \E k \in 1..Len(tasks) :
    /\ tasks[k].pc = "dispatch"
    /\ LET r == getCommandOutput(tasks[k].command, 0).result
       IN  r.shape = "thrown" \/ r.content.kind \notin {"string", "array"}

\* C20: the step in which a failure is raised appends an error line,
\* releases isProcessing and leaves the session able to take the next
\* submission.
C20_FailuresBecomeErrorLines ==
  [][ (lastEvent' = "dispatch" /\ FailureRaised)
      => /\ lines' # <<>>
         /\ lines'[Len(lines')].type = "error"
         /\ ~isProcessing'
         /\ ~crashed' ]_vars

(***************************************************************************)
(* The reveal and multi-unit glyphs.                                       *)
(***************************************************************************)
\* the text ends with the first unit of a surrogate pair
EndsInsideGlyph(s) == s # <<>> /\ s[Len(s)] = "HS"

\* C21: no line's displayedContent ends between the two code units of a
\* surrogate pair, for string content and for the last revealed segment of
\* segmented content.
C21_RevealByCodePoint ==
  \A i \in 1..Len(lines) :
    LET d == lines[i].displayedContent
    IN  /\ d.kind = "string" => ~EndsInsideGlyph(d.str)
        /\ (d.kind = "array" /\ d.segs # <<>>) => ~EndsInsideGlyph(d.segs[Len(d.segs)].text)

(***************************************************************************)
(* Line ids.                                                               *)
(***************************************************************************)
\* C22: the lines of the transcript have pairwise distinct ids, and no id
\* is given to a line after it was given to an earlier one (the two welcome
\* lines, which clear puts back, keep their ids).
C22_IdsDistinct ==
  /\ \A i, j \in 1..Len(lines) : i # j => lines[i].id # lines[j].id
  /\ \A i, j \in 1..Len(created) : i # j => created[i] # created[j]

(***************************************************************************)
(* The output of projects.                                                 *)
(***************************************************************************)
\* the places of the link segments and of the number tags in segs
LinkPlaces(segs) == { j \in 1..Len(segs) : segs[j].url # NoUrl }

TagPlaces(segs) ==
  { j \in 1..Len(segs) :
      \E i \in 1..Len(PORTFOLIO_DATA.projects) : segs[j] = text_primary(NumberTag(i), TRUE) }

\* the i-th smallest element of a set of numbers
RECURSIVE Nth(_, _)
Nth(S, i) ==
  LET least == CHOOSE x \in S : \A y \in S : x <= y
  IN  IF i = 1 THEN least ELSE Nth(S \ {least}, i - 1)

\* C24: the result of `projects` is a segment sequence that starts with
\* the bold primary segment MY PROJECTS; after it come as many numbered
\* entries as PORTFOLIO_DATA has projects, in that order: the i-th entry
\* starts with the tag [i] followed by the name of the i-th project and
\* holds, before the next tag, one link segment whose text and url are both
\* the link of the i-th project.
C24_ProjectsOutput ==
  (Resolved /\ out.command = n_projects) =>
    LET segs  == out.result.content.segs
        P     == PORTFOLIO_DATA.projects
        links == LinkPlaces(segs)
        tags  == TagPlaces(segs)
    IN  /\ out.result.shape = "CommandOutput"
        /\ ~out.result.error
        /\ out.result.content.kind = "array"
        /\ segs[1] = text_primary(<<"M", "Y", " ", "P", "R", "O", "J", "E", "C", "T", "S">>, TRUE)
        /\ Cardinality(tags) = Len(P)
        /\ Cardinality(links) = Len(P)
        /\ \A i \in 1..Len(P) :
             LET t == Nth(tags, i)
                 l == Nth(links, i)
             IN  /\ 1 < t
                 /\ segs[t] = text_primary(NumberTag(i), TRUE)
                 /\ segs[t + 1] = text_primary(P[i].name, TRUE)
                 /\ t < l
                 /\ i < Len(P) => l < Nth(tags, i + 1)
                 /\ segs[l].text = P[i].link
                 /\ segs[l].url = P[i].link

\* `projects` has been resolved, with more than one project configured
C24_Witness ==
  /\ Resolved
  /\ out.command = n_projects
  /\ out.invoked
  /\ Len(PORTFOLIO_DATA.projects) > 1
  /\ Len(out.result.content.segs) > 2

(***************************************************************************)
(* reload, and the line that receives the output.                          *)
(***************************************************************************)
\* C25: the step that handles a result with content RELOAD calls
\* window.location.reload() once, adds no output line and leaves no
\* suspended reveal; no other step calls it.
C25_ReloadOnce ==
  [][ /\ (lastEvent' = "dispatch" /\ Settling(RELOAD))
         => /\ reloads' = reloads + 1
            /\ \A i \in 1..Len(lines') : lines'[i].type \notin {"output", "error"}
            /\ tasks' = <<>>
      /\ reloads' # reloads => (lastEvent' = "dispatch" /\ Settling(RELOAD)) ]_vars

\* reload has just been handled
C25_Witness ==
  /\ lastEvent = "dispatch"
  /\ reloads = 1
  /\ tasks = <<>>
  /\ ~isProcessing
  /\ lines = WelcomeLines

\* the empty value of the shape of a content
EmptyOf(content) ==
  IF content.kind = "array" THEN ArrayContent(<<>>) ELSE StringContent(<<>>)

\* C26: the step that handles a result that is not a sentinel appends one
\* line after the transcript it finds; the line is created with the content
\* of the result, type error if result.error and output otherwise,
\* isComplete false and a displayedContent that is the empty string for
\* string content and the empty segment sequence for segmented content.
C26_OutputLineCreated ==
  [][ \A k \in 1..Len(tasks) :
        (lastEvent' = "dispatch" /\ tasks[k].pc = "settled"
           /\ tasks[k].result.content \notin {CLEAR, RELOAD})
        => LET r == tasks[k].result
               l == OutputLine(LineId("output-", now), r)
           IN  /\ Len(lines') = Len(lines) + 1
               /\ lines'[Len(lines')].id = l.id
               /\ lines'[Len(lines')].content = r.content
               /\ lines'[Len(lines')].type = IF r.error THEN "error" ELSE "output"
               /\ l.content = r.content
               /\ ~l.isComplete
               /\ l.displayedContent = EmptyOf(r.content) ]_vars

(***************************************************************************)
(* Error lines and the steps of the reveal.                                *)
(***************************************************************************)
\* C27: a line of type error enters the transcript incomplete, and a line
\* of type error becomes complete only in a timer step of renderOutputLine.
C27_ErrorLinesAnimated ==
  [][ \A i \in 1..Len(lines') :
        lines'[i].type = "error" =>
          IF i <= Len(lines) /\ lines[i].id = lines'[i].id
          THEN (lines'[i].isComplete /\ ~lines[i].isComplete) => lastEvent' = "tick"
          ELSE ~lines'[i].isComplete ]_vars

\* C28: the revealed segments of a line with segmented content are at most
\* as many as the segments of the content; the i-th revealed segment has
\* the color, bold and url of the i-th segment of the content; every
\* revealed segment but the last has the whole text of its segment, and the
\* text of the last is a prefix of the text of its segment.
C28_SegmentedRevealShape ==
  \A i \in 1..Len(lines) :
    LET d == lines[i].displayedContent
        c == lines[i].content
    IN  (d.kind = "array" /\ c.kind = "array") =>
          /\ Len(d.segs) <= Len(c.segs)
          /\ \A j \in 1..Len(d.segs) :
               /\ d.segs[j].color = c.segs[j].color
               /\ d.segs[j].bold = c.segs[j].bold
               /\ d.segs[j].url = c.segs[j].url
               /\ j < Len(d.segs) => d.segs[j].text = c.segs[j].text
               /\ j = Len(d.segs) => IsPrefix(d.segs[j].text, c.segs[j].text)

\* a timer step has left the reveal inside the second of two segments that
\* differ in color, bold and url
C28_Witness ==
  /\ lastEvent = "tick"
  /\ \E i \in 1..Len(lines) :
       LET d == lines[i].displayedContent
           c == lines[i].content
       IN  /\ ~lines[i].isComplete
           /\ d.kind = "array"
           /\ Len(d.segs) = 2
           /\ c.segs[1].color # c.segs[2].color
           /\ c.segs[1].url # c.segs[2].url
           /\ d.segs[1].text = c.segs[1].text
           /\ d.segs[2].text # <<>>
           /\ Len(d.segs[2].text) < Len(c.segs[2].text)

\* the text of a content: the texts of its segments joined, or the string
TextOf(c) == IF c.kind = "array" THEN formatToString(c.segs) ELSE c.str

\* the timers of renderOutputLine that have fired since the command was
\* submitted at Epoch
Timers == (now - Epoch) \div TYPING_SPEED_MS

\* C29: counting as a tick each pass of renderOutputLine that appends a
\* code unit and then waits TYPING_SPEED_MS (the first pass starts when the
\* result is handled), the k-th tick leaves the first k code units of the
\* text of the content as the text of displayedContent, and the line of a
\* content of n code units is complete exactly when the n-th wait is over.
C29_OneUnitPerTick ==
  \A i \in 1..Len(lines) :
    lines[i].type \in {"output", "error"} =>
      LET full  == TextOf(lines[i].content)
          n     == Len(full)
          k     == IF Timers + 1 < n THEN Timers + 1 ELSE n
      IN  /\ TextOf(lines[i].displayedContent) = SubSeq(full, 1, k)
          /\ lines[i].isComplete <=> Timers = n
          /\ Timers <= n

\* the second of three timers of the reveal of a three-unit content has fired
C29_Witness ==
  /\ lastEvent = "tick"
  /\ Timers = 2
  /\ \E i \in 1..Len(lines) :
       /\ lines[i].type \in {"output", "error"}
       /\ Len(TextOf(lines[i].content)) = 3
       /\ Len(TextOf(lines[i].displayedContent)) = 3
       /\ ~lines[i].isComplete

\* the step handles a result whose content is CLEAR or RELOAD (in both
\* variants getCommandOutput answers these two names before it looks at
\* the table)
Resetting ==
  \E k \in 1..Len(tasks) :
    /\ tasks[k].pc = "dispatch"
    /\ ParsedCommand(tasks[k].command) \in { n_clear, n_reload }

\* C23: every step other than the one that handles a reset keeps every line
\* of the transcript, at its place: the transcript before the step is, id
\* by id, a prefix of the transcript after it.
C23_OnlyResetRemovesLines ==
  [][ ~Resetting =>
        /\ Len(lines') >= Len(lines)
        /\ \A i \in 1..Len(lines) : lines'[i].id = lines[i].id ]_vars

\* C30: once a submission whose result is a string with line breaks has
\* been processed, the lines after its echo are the pieces of the content
\* between the line breaks, in order, one line each, all of the kind of the
\* result, each fully revealed and complete.
C30_OneLinePerLineBreak ==
  (~isProcessing /\ \E i \in 1..Len(lines) : lines[i].type = "command") =>
    LET p == LastCommand(lines)
        r == getCommandOutput_str(lines[p].content.str).result
    IN  (r.content.kind = "string" /\ \E u \in 1..Len(r.content.str) : r.content.str[u] = "\n") =>
          LET pieces == splitLines(r.content.str)
          IN  /\ Len(lines) = p + Len(pieces)
              /\ \A j \in 1..Len(pieces) :
                   /\ lines[p + j].type = (IF r.error THEN "error" ELSE "output")
                   /\ lines[p + j].displayedContent = StringContent(pieces[j])
                   /\ lines[p + j].isComplete

(***************************************************************************)
(* Frame of the reveal, idle transcripts, shape of the transcript, reset,  *)
(* history buffer and painted content.                                     *)
(***************************************************************************)
\* the call of handleCommand whose renderOutputLine is suspended at a timer
Revealing == { k \in 1..Len(tasks) : tasks[k].pc = "reveal" }

\* C31: a step that is not a reset keeps id, type and content of every
\* line; a tick of renderOutputLine changes nothing but displayedContent and
\* isComplete of the line whose id it was called with, leaves every other
\* line as it is, and leaves the content it reads from as it was.
C31_RevealFrame ==
  [][ /\ ~Resetting =>
           \A i \in 1..Len(lines) :
             /\ i <= Len(lines')
             /\ lines'[i].id = lines[i].id
             /\ lines'[i].type = lines[i].type
             /\ lines'[i].content = lines[i].content
      /\ lastEvent' = "tick" =>
           \E k \in Revealing :
             /\ Len(lines') = Len(lines)
             /\ \A i \in 1..Len(lines) :
                  lines[i].id # tasks[k].lineId => lines'[i] = lines[i]
             /\ \A i \in 1..Len(lines) :
                  lines[i].id = tasks[k].lineId => lines'[i].content = tasks[k].content
             /\ k <= Len(tasks') /\ tasks'[k].pc = "reveal" =>
                  tasks'[k].content = tasks[k].content ]_vars

\* a timer has fired during the reveal of the second output line: the line
\* is partly revealed and an earlier output line stands before it
C31_Witness ==
  /\ lastEvent = "tick"
  /\ Revealing # {}
  /\ \E i, j \in 1..Len(lines) :
       /\ i < j
       /\ lines[i].type \in {"output", "error"}
       /\ lines[j].type \in {"output", "error"}
       /\ ~lines[j].isComplete
       /\ lines[j].displayedContent # StringContent(<<>>)
       /\ lines[j].displayedContent # lines[j].content

\* C32: whenever isProcessing is false, every line of the transcript is
\* complete.
C32_IdleMeansComplete ==
  ~isProcessing => \A i \in 1..Len(lines) : lines[i].isComplete

\* C33: the transcript is the two welcome lines followed by pairs of a
\* command line and the one output or error line of its result, in the
\* order of submission; only while getCommandOutput is awaited may the
\* last line be a command line without its partner.
C33_TranscriptShape ==
  /\ Len(lines) >= 2
  /\ SubSeq(lines, 1, 2) = WelcomeLines
  /\ \A i \in 3..Len(lines) :
       IF (i - 3) % 2 = 0
       THEN /\ lines[i].type = "command"
            /\ i = Len(lines) => ~NoPromiseJob
            /\ i > 3 => lines[i - 2].id.n <= lines[i].id.n
       ELSE /\ lines[i].type \in {"output", "error"}
            /\ \E d \in 0..MaxDraw :
                 LET result == getCommandOutput(lines[i - 1].content.str, d).result
                 IN  /\ lines[i].content = result.content
                     /\ lines[i].type = (IF result.error THEN "error" ELSE "output")

\* C34: the step that handles a result with content CLEAR leaves lines (ids
\* included), input, history, historyIndex and isProcessing as they are
\* when the component is mounted.
C34_ClearRestoresInitialState ==
  [][ (lastEvent' = "dispatch" /\ Settling(CLEAR))
      => << lines', input', history', historyIndex', isProcessing' >>
           = << WelcomeLines, <<>>, <<>>, -1, FALSE >> ]_vars

\* clear has been handled as the second submission, after the reveal of
\* the first, and the session is as it was when mounted
C34_Witness ==
  /\ lastEvent = "dispatch"
  /\ reloads = 0
  /\ submits = 2
  /\ Len(created) >= 5
  /\ << lines, input, history, historyIndex, isProcessing >>
       = << WelcomeLines, <<>>, <<>>, -1, FALSE >>

\* C35: history is the sequence of the texts of the command lines of the
\* transcript, which clear empties together with it; an accepted Enter
\* appends the input exactly as typed, the step that handles CLEAR or
\* RELOAD empties the history, and no other step (a rejected Enter among
\* them) changes it.
C35_HistoryIsAcceptedSubmissions ==
  /\ [](history = Submitted(lines))
  /\ [][ /\ (lastEvent' = "enter" /\ Accepted(input)) => history' = Append(history, input)
         /\ (lastEvent' = "enter" /\ ~Accepted(input)) => history' = history
         /\ (lastEvent' = "dispatch" /\ Resetting) => history' = <<>>
         /\ (lastEvent' # "enter" /\ ~Resetting) => history' = history ]_vars

\* the same text with a leading blank and a capital letter, which resolves
\* to an error, has been submitted twice and processed
C35_Witness ==
  /\ ~isProcessing
  /\ Len(history) = 2
  /\ history[1] = history[2]
  /\ Head(history[1]) = " "
  /\ toLowerCase(history[1]) # history[1]
  /\ lines[Len(lines)].type = "error"
  /\ lines[Len(lines)].isComplete

\* C36: what TerminalOutput paints for a line is the displayedContent of
\* the line (where painting does not throw): the same content, or nothing
\* at all on both sides.
C36_PaintedIsRevealed ==
  \A i \in 1..Len(lines) :
    LET painted == Painted(lines[i])
        shown   == lines[i].displayedContent
    IN  painted.kind # "undefined" =>
          \/ painted = shown
          \/ TextOf(painted) = <<>> /\ TextOf(shown) = <<>>
====
